---- MODULE Spec2Model ----
(***************************************************************************)
(* A model of the multi-source aggregation engine of stock-news-analyzer.  *)
(*                                                                         *)
(* Part I  : EnhancedNewsService (src/src/services/newsApi.js)             *)
(*           getComprehensiveNews, its four source adapters, the           *)
(*           deduplicator and the mock-news generator.                     *)
(* Part II : the three gainers services (realTimeGainersApi.js,            *)
(*           yahooFinanceApi.js, simpleCorsService.js): getTopGainers.     *)
(***************************************************************************)
EXTENDS Integers, Sequences, FiniteSets, TLC

VARIABLES
    apis,              \* news: this.apis[source].key, set by the constructor
    pc,                \* news: position of the getComprehensiveNews call
    call,              \* news: arguments of the call in progress
    availableSources,  \* news: the filtered preferredSources of the call
    adapters,          \* news: one entry per pushed apiPromise
    outbound,          \* news: fetch() calls issued during the call
    result,            \* news: value the call resolved with
    outcome,           \* news: "none" | "resolved" | "rejected"
    repeated,          \* news: history, the call repeats the one before it
    settleOrder,       \* news: history, the pushed promises in the order they settled
    service,           \* the service object this run constructed and uses
    gpc,               \* gainers: position of the getTopGainers call
    gopts,             \* gainers: options of the call in progress
    gidx,              \* gainers: index of the source/method being tried
    gcache,            \* gainers: this.cache (key -> entry)
    glog,              \* gainers: where the list of the current call came from
    gresult,           \* gainers: records the call resolved with
    goutcome,          \* gainers: "none" | "resolved" | "rejected"
    ghist,             \* gainers: history, the adapter invocations of the call
    store,             \* cache: the Map, entries in insertion order
    clock,             \* cache: Date.now() and the number of times it advanced
    cop,               \* cache: the last operation and what it returned
    chist,             \* cache: history, the last write of the watched key,
                       \*        the keys set since the last clear, the last hit
    sent,              \* sentiment: the last scoring call and what it returned
    req,               \* request: the makeRequest call in progress
    limiter            \* limiter: rateLimiter.limits, Date.now() and history

newsVars == <<apis, pc, call, availableSources, adapters, outbound, result, outcome, repeated, settleOrder>>
gainersVars == <<service, gpc, gopts, gidx, gcache, glog, gresult, goutcome, ghist>>
cacheVars == <<store, clock, cop, chist>>
utilVars == <<req, limiter>>
vars == <<newsVars, gainersVars, cacheVars, sent, utilVars>>

-----------------------------------------------------------------------------
(* Bounds of the model *)

\* largest options.limit a caller passes
MaxLimit == 2
\* largest number of articles the providers deliver during one call
MaxArticles == 2
\* longest explicit options.preferredSources list
MaxPreferred == 2
\* largest number of API keys present in the environment
MaxConfigured == 2
\* largest maxRequests a caller of the rate limiter passes
MaxRequestsBound == 2
\* the windowMs a caller of the rate limiter passes, in milliseconds
WindowChoices == {2, 3}
\* latest reading of Date.now() in a run of the rate limiter, in milliseconds
MaxNow == 5
\* longest list of stocks handed to analyzeBulkSentiment
MaxStocks == 2

-----------------------------------------------------------------------------
(* Text.  A string is a sequence of runs [c, n]: character c repeated n    *)
(* times, so that the 50-character prefix of a title is computed and not   *)
(* assumed.                                                                *)

Run(c, n) == [c |-> c, n |-> n]

\* String.prototype.toLowerCase on one character
LowerChar(c) ==
    CASE c = "A" -> "a"
      [] c = "B" -> "b"
      [] OTHER -> c

toLowerCase(s) == [i \in DOMAIN s |-> Run(LowerChar(s[i].c), s[i].n)]

RECURSIVE substring0(_, _)
\* String.prototype.substring(0, k)
substring0(s, k) ==
    IF s = <<>> \/ k <= 0 THEN <<>>
    ELSE IF Head(s).n >= k THEN <<Run(Head(s).c, k)>>
    ELSE <<Head(s)>> \o substring0(Tail(s), k - Head(s).n)

RECURSIVE Canon(_)
\* the canonical run list of a string: adjacent runs of one character merged
Canon(s) ==
    IF Len(s) <= 1 THEN s
    ELSE LET rest == Canon(Tail(s)) IN
         IF Head(s).c = Head(rest).c
         THEN <<Run(Head(s).c, Head(s).n + Head(rest).n)>> \o Tail(rest)
         ELSE <<Head(s)>> \o rest

-----------------------------------------------------------------------------
(* Part I: EnhancedNewsService *)

Sources == {"marketaux", "finnhub", "stocknewsapi", "alphavantage"}

\* this.apis[source].name
ApiName(source) ==
    CASE source = "marketaux" -> "Marketaux"
      [] source = "finnhub" -> "Finnhub"
      [] source = "stocknewsapi" -> "Stock News API"
      [] source = "alphavantage" -> "Alpha Vantage"

\* the placeholder each adapter compares its own key with
AdapterPlaceholder(source) ==
    CASE source = "marketaux" -> "your_marketaux_api_key_here"
      [] source = "finnhub" -> "your_finnhub_api_key_here"
      [] source = "stocknewsapi" -> "your_stocknews_api_key_here"
      [] source = "alphavantage" -> "your_alphavantage_api_key_here"

\* the placeholder getComprehensiveNews builds from the source name
FilterPlaceholder(source) == "your_" \o source \o "_api_key_here"

GenericPlaceholder == "your_key_here"

\* a key a provider issued; "" stands for an unset (undefined or empty) key
LiveKey == "live-key"
NoKey == ""

KeyChoices(source) ==
    {NoKey, AdapterPlaceholder(source), FilterPlaceholder(source),
     GenericPlaceholder, LiveKey}

\* the prerequisite check at the top of fetchFromMarketaux, fetchFromFinnhub,
\* fetchFromStockNewsAPI and fetchFromAlphaVantage
AdapterKeyConfigured(source, key) ==
    ~(key = NoKey \/ key = AdapterPlaceholder(source))

\* the predicate of preferredSources.filter in getComprehensiveNews
FilterAccepts(source, keys) ==
    /\ source \in DOMAIN keys
    /\ keys[source] # NoKey
    /\ keys[source] # FilterPlaceholder(source)
    /\ keys[source] # GenericPlaceholder

RECURSIVE SelectAvailable(_, _)
SelectAvailable(preferred, keys) ==
    IF preferred = <<>> THEN <<>>
    ELSE (IF FilterAccepts(Head(preferred), keys) THEN <<Head(preferred)>> ELSE <<>>)
         \o SelectAvailable(Tail(preferred), keys)

-----------------------------------------------------------------------------
(* Articles *)

Symbols == {"AAPL", "ZZZZ"}

\* symbols no ticker has: the empty string, eight digits
InvalidSymbols == {"", "12345678"}

\* the characters of a symbol: how many, and whether all are letters
SymbolShape(symbol) ==
    CASE symbol = "AAPL" -> [length |-> 4, letters |-> TRUE]
      [] symbol = "ZZZZ" -> [length |-> 4, letters |-> TRUE]
      [] symbol = "" -> [length |-> 0, letters |-> TRUE]
      [] symbol = "12345678" -> [length |-> 8, letters |-> FALSE]

\* validateStockSymbol of utils/helpers.js: /^[A-Z]{1,5}$/ on the trimmed,
\* upper-cased symbol; getComprehensiveNews does not call it
validateStockSymbol(symbol) ==
    /\ SymbolShape(symbol).length >= 1
    /\ SymbolShape(symbol).length <= 5
    /\ SymbolShape(symbol).letters

\* the length of the title prefix that enters the deduplication key
TitlePrefixLen == 50

\* titles a provider may deliver
TitleUpperLong == <<Run("A", 50), Run("x", 1)>>
TitleLowerLong == <<Run("a", 50), Run("y", 1)>>
TitleNearLong == <<Run("a", 49), Run("z", 2)>>
TitleShort == <<Run("b", 3)>>
\* the number 0 where a title is expected: falsy, and no string
TitleZero == <<Run("#0", 1)>>

IsString(title) == title # TitleZero

Reuters == <<Run("R", 1)>>
Bloomberg == <<Run("B", 1)>>

\* a normalized NewsRecord as the adapters build it; origin is a history
\* field recording which code path produced the record
Article(id, title, source, publishedAt, origin) ==
    [id |-> id, title |-> title, source |-> source,
     publishedAt |-> publishedAt, origin |-> origin]

\* what the providers can deliver: same prefix and same source (n1, n2), same
\* prefix and different source (n1, n3), a tie on the publish time (n3, n4),
\* a title that differs inside the prefix (n6), a non-string title (n5)
WireArticles ==
    { [id |-> "n1", title |-> TitleUpperLong, source |-> Reuters, time |-> 3],
      [id |-> "n2", title |-> TitleLowerLong, source |-> Reuters, time |-> 1],
      [id |-> "n3", title |-> TitleLowerLong, source |-> Bloomberg, time |-> 2],
      [id |-> "n4", title |-> TitleShort, source |-> Reuters, time |-> 2],
      [id |-> "n5", title |-> TitleZero, source |-> Bloomberg, time |-> 1],
      [id |-> "n6", title |-> TitleNearLong, source |-> Reuters, time |-> 3] }

RECURSIVE SeqsUpTo(_, _)
\* the sequences over S of length at most n
SeqsUpTo(S, n) ==
    IF n = 0 THEN {<<>>}
    ELSE LET shorter == SeqsUpTo(S, n - 1) IN
         shorter \cup {Append(q, x) : q \in shorter, x \in S}

\* the article -> record mapping of the four adapters
NormalizeArticles(body) ==
    [i \in DOMAIN body |->
        Article(body[i].id, body[i].title, body[i].source, body[i].time, "live")]

\* a key that skips toLowerCase()
DedupKeyCaseSensitive(article) ==
    Canon(substring0(article.title, TitlePrefixLen)
          \o <<Run("_", 1)>> \o article.source)

\* the key of deduplicateArticles:
\* `${article.title?.toLowerCase().substring(0, 50)}_${article.source}`
DedupKey(article) ==
    Canon(substring0(toLowerCase(article.title), TitlePrefixLen)
          \o <<Run("_", 1)>> \o article.source)

\* article.title?.toLowerCase() throws a TypeError on a non-string title
DedupThrows(articles) ==
    \E i \in DOMAIN articles : ~IsString(articles[i].title)

RECURSIVE DedupFrom(_, _)
DedupFrom(articles, seen) ==
    IF articles = <<>> THEN <<>>
    ELSE LET key == DedupKey(Head(articles)) IN
         IF key \in seen THEN DedupFrom(Tail(articles), seen)
         ELSE <<Head(articles)>> \o DedupFrom(Tail(articles), seen \cup {key})

deduplicateArticles(articles) == DedupFrom(articles, {})

RECURSIVE InsertByDate(_, _)
\* a is placed after every article at least as new: the sort is stable
InsertByDate(a, sorted) ==
    IF sorted = <<>> THEN <<a>>
    ELSE IF Head(sorted).publishedAt >= a.publishedAt
         THEN <<Head(sorted)>> \o InsertByDate(a, Tail(sorted))
         ELSE <<a>> \o sorted

RECURSIVE SortNewestFirst(_)
\* .sort((a, b) => new Date(b.publishedAt) - new Date(a.publishedAt))
SortNewestFirst(articles) ==
    IF articles = <<>> THEN <<>>
    ELSE LET n == Len(articles) IN
         InsertByDate(articles[n], SortNewestFirst(SubSeq(articles, 1, n - 1)))

\* Array.prototype.slice(0, limit) for limit >= 0
Slice0(s, limit) == SubSeq(s, 1, IF limit < Len(s) THEN limit ELSE Len(s))

\* titles of getMockNews: the symbol interpolated into a fixed template
MockTitle(k, symbol) ==
    CASE k = 1 -> <<Run(symbol, 1), Run(" Reports Strong Q4 Earnings, Revenue Beats Expectations", 1)>>
      [] k = 2 -> <<Run("Wall Street Analysts Upgrade ", 1), Run(symbol, 1), Run(" Price Target on Innovation Push", 1)>>
      [] k = 3 -> <<Run(symbol, 1), Run(" Faces New Regulatory Scrutiny Over Market Practices", 1)>>
      [] k = 4 -> <<Run(symbol, 1), Run(" Announces Strategic Partnership for AI Development", 1)>>
      [] k = 5 -> <<Run(symbol, 1), Run(" Stock Shows Resilience Amid Market Volatility", 1)>>
      [] k = 6 -> <<Run(symbol, 1), Run(" Board Approves Major Share Buyback Program", 1)>>

MockSourceName(k) ==
    CASE k = 1 -> <<Run("Demo Financial News", 1)>>
      [] k = 2 -> <<Run("Demo Market Watch", 1)>>
      [] k = 3 -> <<Run("Demo Regulatory Times", 1)>>
      [] k = 4 -> <<Run("Demo Tech News", 1)>>
      [] k = 5 -> <<Run("Demo Investment Journal", 1)>>
      [] k = 6 -> <<Run("Demo Corporate News", 1)>>

MockId(k) ==
    CASE k = 1 -> "mock_1" [] k = 2 -> "mock_2" [] k = 3 -> "mock_3"
      [] k = 4 -> "mock_4" [] k = 5 -> "mock_5" [] k = 6 -> "mock_6"

\* publishedAt of the mock articles, in hours relative to the call
MockHoursAgo(k) ==
    CASE k = 1 -> 2 [] k = 2 -> 4 [] k = 3 -> 6
      [] k = 4 -> 8 [] k = 5 -> 12 [] k = 6 -> 18

MockArticles(symbol) ==
    [k \in 1..6 |->
        Article(MockId(k), MockTitle(k, symbol), MockSourceName(k),
                0 - MockHoursAgo(k), "synthetic")]

DemoSourceName == "Demo Data"

getMockNews(symbol) ==
    [symbol |-> symbol,
     articles |-> MockArticles(symbol),
     sources |-> <<[name |-> DemoSourceName, status |-> "success",
                    count |-> Len(MockArticles(symbol))]>>,
     errors |-> <<>>]

-----------------------------------------------------------------------------
(* Source adapters *)

\* the message of the Error an adapter throws when its key check fails
KeyErrorText(source) ==
    CASE source = "marketaux" -> "Marketaux API key not configured"
      [] source = "finnhub" -> "Finnhub API key not configured"
      [] source = "stocknewsapi" -> "Stock News API key not configured"
      [] source = "alphavantage" -> "Alpha Vantage API key not configured"

KeyErrorTexts == {KeyErrorText(s) : s \in Sources}

\* how an outbound fetch can end without usable data: fetch rejects, the
\* response is not ok, response.json() rejects, the body reports an error
FailureKinds == {"network", "http", "badjson", "apierror"}

\* error.message of what the adapter rethrows
FailureText(source, kind) ==
    CASE kind = "network" -> "Failed to fetch"
      [] kind = "http" -> ApiName(source) \o " API error: 500 - Internal Server Error"
      [] kind = "badjson" -> "Unexpected end of JSON input"
      [] kind = "apierror" ->
            IF source = "finnhub" THEN "Finnhub API returned invalid data"
            ELSE ApiName(source) \o " API error: Unknown error"

\* Math.ceil(limit / n)
CeilDiv(limit, n) == (limit + n - 1) \div n

\* the options getComprehensiveNews passes to the adapter of `source`
RequestLimit(source, limit, n) ==
    IF source = "finnhub" THEN 0 ELSE CeilDiv(limit, n)

\* an adapter that issues fetch(url) without its key check
InvokeAdapterUnchecked(source, keys, limit, n) ==
    [source |-> source, state |-> "pending", articles |-> <<>>, error |-> "",
     request |-> RequestLimit(source, limit, n)]

\* the synchronous part of fetchFromX: the key check, then fetch(url).
\* A failed check rejects the returned promise before any outbound call.
InvokeAdapter(source, keys, limit, n) ==
    IF AdapterKeyConfigured(source, keys[source])
    THEN [source |-> source, state |-> "pending", articles |-> <<>>, error |-> "",
          request |-> RequestLimit(source, limit, n)]
    ELSE [source |-> source, state |-> "rejected", articles |-> <<>>,
          error |-> KeyErrorText(source), request |-> 0]

\* the for loop over availableSources: every source with a switch case is
\* invoked and its wrapped promise pushed
InvokeAll(available, keys, limit) ==
    [i \in DOMAIN available |->
        InvokeAdapter(available[i], keys, limit, Len(available))]

Settled(a) == a.state \in {"fulfilled", "rejected"}

\* Promise.race / Promise.any in place of Promise.all
PromiseRaceReady(as) == \E i \in DOMAIN as : Settled(as[i])

\* Promise.all(apiPromises) resolves once every wrapped promise has settled
PromiseAllReady(as) == \A i \in DOMAIN as : Settled(as[i])

\* promise.then(data => ({success: true, ...})).catch(error => ({success: false, ...}))
WrapSettled(a) ==
    IF a.state = "fulfilled"
    THEN [success |-> TRUE, source |-> a.source, articles |-> a.articles, error |-> ""]
    ELSE [success |-> FALSE, source |-> a.source, articles |-> <<>>, error |-> a.error]

\* an array filled as the promises settle, first settled first
ResponsesAsSettled(as) ==
    [k \in DOMAIN settleOrder |-> WrapSettled(as[settleOrder[k]])]

\* the responses array: one wrapped value per settled promise, in push order
Responses(as) ==
    LET settled == SelectSeq(as, Settled) IN
    [i \in DOMAIN settled |-> WrapSettled(settled[i])]

\* results.sources after responses.forEach
ManifestEntry(r) ==
    IF r.success
    THEN [name |-> r.source, status |-> "success", count |-> Len(r.articles)]
    ELSE [name |-> r.source, status |-> "error", error |-> r.error]

BuildManifest(responses) == [i \in DOMAIN responses |-> ManifestEntry(responses[i])]

RECURSIVE MergeArticles(_)
\* results.articles after responses.forEach
MergeArticles(responses) ==
    IF responses = <<>> THEN <<>>
    ELSE (IF Head(responses).success THEN Head(responses).articles ELSE <<>>)
         \o MergeArticles(Tail(responses))

\* results.errors after responses.forEach
BuildErrors(responses) ==
    LET failed == SelectSeq(responses, LAMBDA r : ~r.success) IN
    [i \in DOMAIN failed |-> failed[i].source \o ": " \o failed[i].error]

\* the chain deduplicateArticles(...).sort(...).slice(0, limit)
DedupSortSlice(articles, limit) ==
    Slice0(SortNewestFirst(deduplicateArticles(articles)), limit)

\* a catch block that rethrows
CatchRethrows(symbol) == [outcome |-> "rejected", value |-> [symbol |-> symbol]]

\* the catch block of getComprehensiveNews: fall back to mock data
CatchHandler(symbol) == [outcome |-> "resolved", value |-> getMockNews(symbol)]

\* the body of getComprehensiveNews after `await Promise.all(apiPromises)`
BuildResult(symbol, limit, responses) ==
    LET merged == MergeArticles(responses) IN
    IF merged = <<>>
    THEN [outcome |-> "resolved", value |-> getMockNews(symbol)]
    ELSE IF DedupThrows(merged)
    THEN CatchHandler(symbol)
    ELSE [outcome |-> "resolved",
          value |-> [symbol |-> symbol,
                     articles |-> DedupSortSlice(merged, limit),
                     sources |-> BuildManifest(responses),
                     errors |-> BuildErrors(responses)]]

-----------------------------------------------------------------------------
(* getComprehensiveNews as a state machine *)

NoCall == [symbol |-> "", limit |-> 0, preferredSources |-> <<>>]
NoResult == [symbol |-> "", articles |-> <<>>, sources |-> <<>>, errors |-> <<>>]

\* the default of options.preferredSources
DefaultPreferred == <<"marketaux", "finnhub", "stocknewsapi">>

\* names a caller may list; "bloomberg" is no key of this.apis
PreferredNames == Sources \cup {"bloomberg"}

NoRepeat(q) == \A i, j \in DOMAIN q : i # j => q[i] # q[j]

PreferredChoices ==
    {DefaultPreferred} \cup {q \in SeqsUpTo(PreferredNames, MaxPreferred) : NoRepeat(q)}

\* articles still deliverable in this call under MaxArticles
ArticleBudget ==
    LET RECURSIVE total(_)
        total(q) == IF q = <<>> THEN 0 ELSE Len(Head(q).articles) + total(Tail(q))
    IN MaxArticles - total(adapters)

PendingCount(as) == Cardinality({i \in DOMAIN as : as[i].state = "pending"})

NewsInit ==
    /\ apis \in [Sources -> UNION {KeyChoices(s) : s \in Sources}]
    /\ \A s \in Sources : apis[s] \in KeyChoices(s)
    /\ Cardinality({s \in Sources : apis[s] # NoKey}) <= MaxConfigured
    /\ pc = "idle"
    /\ call = NoCall
    /\ availableSources = <<>>
    /\ adapters = <<>>
    /\ outbound = 0
    /\ result = NoResult
    /\ outcome = "none"
    /\ repeated = FALSE
    /\ settleOrder = <<>>

\* the promises that are settled when the for loop ends: a failed key check
\* rejects at once
SettledAtInvocation(as) ==
    LET RECURSIVE from(_)
        from(i) == IF i > Len(as) THEN <<>>
                   ELSE (IF as[i].state = "rejected" THEN <<i>> ELSE <<>>) \o from(i + 1)
    IN from(1)

\* getComprehensiveNews(symbol, {limit, preferredSources}) up to its first
\* await, or to the early return when no promise was pushed
Invoke(symbol, limit, preferred) ==
    LET available == SelectAvailable(preferred, apis)
        invoked == InvokeAll(available, apis, limit)
    IN /\ call' = [symbol |-> symbol, limit |-> limit, preferredSources |-> preferred]
       /\ availableSources' = available
       /\ adapters' = invoked
       /\ outbound' = PendingCount(invoked)
       /\ settleOrder' = SettledAtInvocation(invoked)
       /\ IF invoked = <<>>
          THEN /\ pc' = "done"
               /\ result' = getMockNews(symbol)
               /\ outcome' = "resolved"
          ELSE /\ pc' = "awaiting"
               /\ result' = NoResult
               /\ outcome' = "none"

Call ==
    /\ service = "news"
    /\ pc = "idle"
    /\ \E symbol \in Symbols, limit \in 1..MaxLimit, preferred \in PreferredChoices :
        Invoke(symbol, limit, preferred)
    /\ repeated' = FALSE
    /\ UNCHANGED <<apis, gainersVars, cacheVars, sent, utilVars>>

\* a caller passes a symbol that is no ticker
CallInvalid ==
    /\ service = "news"
    /\ pc = "idle"
    /\ \E symbol \in InvalidSymbols, limit \in 1..MaxLimit, preferred \in PreferredChoices :
        Invoke(symbol, limit, preferred)
    /\ repeated' = FALSE
    /\ UNCHANGED <<apis, gainersVars, cacheVars, sent, utilVars>>

\* the caller takes the result and at once calls again with the same symbol
\* and the same options
CallAgain ==
    /\ service = "news"
    /\ pc = "done"
    /\ outcome = "resolved"
    /\ ~repeated
    /\ Invoke(call.symbol, call.limit, call.preferredSources)
    /\ repeated' = TRUE
    /\ UNCHANGED <<apis, gainersVars, cacheVars, sent, utilVars>>

\* the provider of adapter i answers and the adapter's promise settles
SettleFailure(i) ==
    /\ pc = "awaiting"
    /\ i \in DOMAIN adapters
    /\ adapters[i].state = "pending"
    /\ \E kind \in FailureKinds :
        adapters' = [adapters EXCEPT ![i].state = "rejected",
                                     ![i].error = FailureText(adapters[i].source, kind)]
    /\ settleOrder' = Append(settleOrder, i)
    /\ UNCHANGED <<apis, pc, call, availableSources, outbound, result, outcome, repeated, gainersVars, cacheVars, sent, utilVars>>

SettleSuccess(i) ==
    /\ pc = "awaiting"
    /\ i \in DOMAIN adapters
    /\ adapters[i].state = "pending"
    /\ \E body \in SeqsUpTo(WireArticles, ArticleBudget) :
        adapters' = [adapters EXCEPT ![i].state = "fulfilled",
                                     ![i].articles = NormalizeArticles(body)]
    /\ settleOrder' = Append(settleOrder, i)
    /\ UNCHANGED <<apis, pc, call, availableSources, outbound, result, outcome, repeated, gainersVars, cacheVars, sent, utilVars>>

\* the provider of adapter i never answers: fetch(url) is given no timeout
\* and no abort signal in newsApi.js, so the promise stays pending
NeverResponds(i) ==
    /\ pc = "awaiting"
    /\ i \in DOMAIN adapters
    /\ adapters[i].state = "pending"
    /\ adapters' = [adapters EXCEPT ![i].state = "hung"]
    /\ UNCHANGED <<apis, pc, call, availableSources, outbound, result, outcome, repeated, settleOrder, gainersVars, cacheVars, sent, utilVars>>

\* `await Promise.all(apiPromises)` resumes and the call returns
Resolve ==
    /\ pc = "awaiting"
    /\ PromiseAllReady(adapters)
    /\ LET r == BuildResult(call.symbol, call.limit, Responses(adapters)) IN
        /\ result' = r.value
        /\ outcome' = r.outcome
    /\ pc' = "done"
    /\ UNCHANGED <<apis, call, availableSources, adapters, outbound, repeated, settleOrder, gainersVars, cacheVars, sent, utilVars>>

\* the caller has taken the result; the service keeps no per-call state
Return ==
    /\ pc = "done"
    /\ pc' = "idle"
    /\ call' = NoCall
    /\ availableSources' = <<>>
    /\ adapters' = <<>>
    /\ outbound' = 0
    /\ result' = NoResult
    /\ outcome' = "none"
    /\ repeated' = FALSE
    /\ settleOrder' = <<>>
    /\ UNCHANGED <<apis, gainersVars, cacheVars, sent, utilVars>>

-----------------------------------------------------------------------------
(* Part II: the gainers services *)

\* the service classes; a run constructs one service object and calls it
Services == {"news", "realtime", "yahoo", "simple"}

\* Percentages are integers in thousandths of a percent: 4.25% is 4250.
\* x.toFixed(2), in hundredths
toFixed2(x) == IF x >= 0 THEN (x + 5) \div 10 ELSE -((-x + 5) \div 10)

\* the text `+${x.toFixed(2)}%`
FormatChange(x) == [sign |-> "+", hundredths |-> toFixed2(x), unit |-> "%"]

\* parseFloat(change.replace('%', '').replace('+', '')), in thousandths
ParseChange(change) == change.hundredths * 10

Max(a, b) == IF a > b THEN a ELSE b

\* a quote record; origin is history: who really produced the record
Quote(symbol, changePercent, source, origin) ==
    [symbol |-> symbol, change |-> FormatChange(changePercent),
     changePercent |-> changePercent, source |-> source, origin |-> origin]

\* rows a provider delivers
RowHigh == [symbol |-> "AAA", pct |-> 3000]
RowEdge == [symbol |-> "BBB", pct |-> 996]
ProviderBodies == {<<>>, <<RowEdge>>, <<RowEdge, RowHigh>>}

\* the parse* methods and the inline mapping of Financial Modeling Prep
ParseRows(rows, tag) ==
    [k \in DOMAIN rows |-> Quote(rows[k].symbol, rows[k].pct, tag, "live")]

\* this.cache: every key the service uses maps to an entry; an entry whose
\* age is "stale" is older than cacheTimeout
NoEntry == [data |-> <<>>, age |-> "absent"]

CacheKeys(svc) ==
    CASE svc = "realtime" -> {"yahoo_realtime_gainers", "marketwatch_gainers",
                               "cnbc_gainers", "financial_data_gainers",
                               "stock_analysis_gainers"}
      [] svc = "yahoo" -> {"alternative_apis_gainers"}
      [] svc = "simple" -> {"working_apis_gainers"}
      [] OTHER -> {}

\* getCached(key) returns data (not null)
CacheHit(cache, key) == cache[key].age = "fresh"

\* the cache after getCached(key): an expired entry is deleted
getCached(cache, key) ==
    IF cache[key].age = "stale" THEN [cache EXCEPT ![key] = NoEntry] ELSE cache

setCached(cache, key, data) ==
    [cache EXCEPT ![key] = [data |-> data, age |-> "fresh"]]

\* .filter(stock => parseFloat(...) >= minPercentChange)
FilterMin(gainers, minPercentChange) ==
    SelectSeq(gainers, LAMBDA q : ParseChange(q.change) >= minPercentChange)

\* the default of options.minPercentChange, 1.0
DefaultMinPercentChange == 1000

MinPercentChoices == {DefaultMinPercentChange, 3 * DefaultMinPercentChange}

(* RealTimeGainersService *)

\* the length of `sources` in getTopGainers
RealTimeSourceCount == 5

RealTimeCacheKey(i) ==
    CASE i = 1 -> "yahoo_realtime_gainers"
      [] i = 2 -> "marketwatch_gainers"
      [] i = 3 -> "cnbc_gainers"
      [] i = 4 -> "financial_data_gainers"
      [] OTHER -> "stock_analysis_gainers"

\* fetchFromFinancialData walks three endpoints, the others request one
RealTimeEndpoints(i) == IF i = 4 THEN 3 ELSE 1

RealTimeTag(i, e) ==
    CASE i = 1 -> "yahoo_finance_realtime"
      [] i = 2 -> "marketwatch_realtime"
      [] i = 3 -> "cnbc_realtime"
      [] i = 4 -> (CASE e = 1 -> "polygon_realtime"
                     [] e = 2 -> "iex_realtime"
                     [] OTHER -> "twelvedata_realtime")
      [] OTHER -> "stockanalysis_realtime"

\* why a request produced no usable response: fetch rejected, the request
\* outlived requestTimeout and was aborted, or the response was not ok
Faults == {"network", "timeout", "http"}

\* what the network does for source i: endpoint 0 means that no request
\* produced a usable response, for the reason `fault`; endpoint e > 0 means
\* that endpoint e was the first to answer, with rows
RealTimeAnswers(i) ==
    {[endpoint |-> 0, rows |-> <<>>, fault |-> f] : f \in Faults} \cup
    {[endpoint |-> e, rows |-> b, fault |-> "none"] :
        e \in 1..RealTimeEndpoints(i), b \in ProviderBodies}

\* makeRequest of RealTimeGainersService rethrowing the AbortError as it is
RealTimeMakeRequestRaw(fault) ==
    CASE fault = "timeout" -> [threw |-> TRUE, message |-> "The operation was aborted"]
      [] fault = "network" -> [threw |-> TRUE, message |-> "Failed to fetch"]
      [] OTHER -> [threw |-> FALSE, message |-> ""]

\* makeRequest of RealTimeGainersService: the response, or what it throws
RealTimeMakeRequest(fault) ==
    CASE fault = "timeout" -> [threw |-> TRUE, message |-> "Request timeout"]
      [] fault = "network" -> [threw |-> TRUE, message |-> "Failed to fetch"]
      [] OTHER -> [threw |-> FALSE, message |-> ""]

RealTimeSourceName(i) ==
    CASE i = 1 -> "Yahoo Finance"
      [] i = 2 -> "MarketWatch"
      [] i = 3 -> "CNBC"
      [] i = 4 -> "Financial Data APIs"
      [] OTHER -> "Stock Analysis"

\* the error a source throws when no response gave it a list
RealTimeNoData(i) ==
    CASE i = 1 -> "Yahoo Finance API returned invalid data"
      [] i = 2 -> "MarketWatch proxy failed"
      [] i = 3 -> "CNBC API failed"
      [] i = 4 -> "All financial data APIs failed"
      [] OTHER -> "Stock Analysis scraping failed"

\* the message of the error fetchFrom... throws; the loop over endpoints
\* of fetchFromFinancialData swallows what makeRequest throws
RealTimeFailure(i, fault) ==
    LET r == RealTimeMakeRequest(fault) IN
    RealTimeSourceName(i) \o " failed: " \o
        (IF r.threw /\ i # 4 THEN r.message ELSE RealTimeNoData(i))

\* fetchFromYahooFinance .. fetchFromStockAnalysis
RealTimeFetch(i, cache, answer) ==
    LET key == RealTimeCacheKey(i)
        missed == getCached(cache, key)
        gainers == ParseRows(answer.rows, RealTimeTag(i, answer.endpoint))
    IN IF CacheHit(cache, key)
       THEN [threw |-> FALSE, gainers |-> cache[key].data, cache |-> cache, log |-> "cache",
             requests |-> 0, message |-> ""]
       ELSE IF answer.endpoint > 0 /\ (i = 1 \/ gainers # <<>>)
       THEN [threw |-> FALSE, gainers |-> gainers,
             cache |-> setCached(missed, key, gainers), log |-> "network",
             requests |-> answer.endpoint, message |-> ""]
       ELSE [threw |-> TRUE, gainers |-> <<>>, cache |-> missed, log |-> "failed",
             requests |-> RealTimeEndpoints(i), message |-> RealTimeFailure(i, answer.fault)]

(* RealYahooFinanceService *)

YahooCacheKey == "alternative_apis_gainers"

Stock(symbol, baseChange) == [symbol |-> symbol, baseChange |-> baseChange]

\* baseGainers of generateEnhancedMockData
baseGainers ==
    <<Stock("NVDA", 4250), Stock("AMD", 3780), Stock("TSLA", 3450),
      Stock("AAPL", 2980), Stock("GOOGL", 2670), Stock("MSFT", 2450),
      Stock("META", 2340), Stock("AMZN", 2120), Stock("CRM", 1980),
      Stock("NFLX", 1870), Stock("ADBE", 1760), Stock("PYPL", 1650),
      Stock("INTC", 1540), Stock("CSCO", 1430), Stock("ORCL", 1320)>>

\* changeVariation of each stock, drawn from Math.random() and the clock;
\* in generateEnhancedMockData it lies within +-1.1, in generateLiveMarketData
\* within +-1.4
Draws(amplitude) ==
    {[k \in DOMAIN baseGainers |-> v] : v \in {-amplitude, 0, amplitude}} \cup
    {[k \in DOMAIN baseGainers |-> IF k % 2 = 1 THEN -amplitude ELSE amplitude]}

EnhancedAmplitude == 1100
EnhancedFloor == 500

\* a record of generateEnhancedMockData under a provider's name
EnhancedQuoteAsProvider(stock, changeVariation) ==
    Quote(stock.symbol, Max(EnhancedFloor, stock.baseChange + changeVariation),
          "financialmodelingprep", "synthetic")

\* a record of generateEnhancedMockData
EnhancedQuote(stock, changeVariation) ==
    Quote(stock.symbol, Max(EnhancedFloor, stock.baseChange + changeVariation),
          "enhanced_realistic", "synthetic")

generateEnhancedMockData(draw) ==
    [k \in DOMAIN baseGainers |-> EnhancedQuote(baseGainers[k], draw[k])]

\* this.config.maxRetries and this.config.retryDelay
maxRetries == 3
retryDelay == 1000

\* how one fetch(url, requestOptions) settles: with an ok response, with a
\* response that is not ok, rejected with an error whose message holds
\* "CORS" or "NetworkError", or rejected with another error
FetchOutcomes == {"ok", "http", "cors", "error"}

RequestModes == {"cors", "no-cors"}

\* one round of the loop of makeRequest with the retry test off by one
makeRequestStepEager(attempt, settled, mode) ==
    IF settled \in {"ok", "http"} /\ mode = "no-cors"
    THEN [next |-> "throw", wait |-> 0, message |-> "CORS blocked: host"]
    ELSE IF settled = "ok"
    THEN [next |-> "return", wait |-> 0, message |-> ""]
    ELSE IF settled = "cors"
    THEN [next |-> "throw", wait |-> 0, message |-> "CORS blocked: host"]
    ELSE IF attempt = maxRetries - 1
    THEN [next |-> "throw", wait |-> 0,
          message |-> IF settled = "http" THEN "HTTP status" ELSE "fetch error"]
    ELSE [next |-> "retry", wait |-> retryDelay * attempt, message |-> ""]

\* one round of the loop of makeRequest, after fetch settled:
\* return the response, throw, or wait and go round again
makeRequestStep(attempt, settled, mode) ==
    IF settled \in {"ok", "http"} /\ mode = "no-cors"
    THEN [next |-> "throw", wait |-> 0, message |-> "CORS blocked: host"]
    ELSE IF settled = "ok"
    THEN [next |-> "return", wait |-> 0, message |-> ""]
    ELSE IF settled = "cors"
    THEN [next |-> "throw", wait |-> 0, message |-> "CORS blocked: host"]
    ELSE IF attempt = maxRetries
    THEN [next |-> "throw", wait |-> 0,
          message |-> IF settled = "http" THEN "HTTP status" ELSE "fetch error"]
    ELSE [next |-> "retry", wait |-> retryDelay * attempt, message |-> ""]

\* makeRequest as a whole, given how its fetches settle: what it ends with
\* and the number of fetches it issued
RECURSIVE makeRequestFrom(_, _, _)
makeRequestFrom(attempt, outcomes, mode) ==
    IF attempt > maxRetries THEN [next |-> "undefined", attempts |-> maxRetries]
    ELSE LET step == makeRequestStep(attempt, outcomes[attempt], mode) IN
         IF step.next = "retry" THEN makeRequestFrom(attempt + 1, outcomes, mode)
         ELSE [next |-> step.next, attempts |-> attempt]

makeRequest(outcomes, mode) == makeRequestFrom(1, outcomes, mode)

\* the answer of Financial Modeling Prep: how the fetches of makeRequest
\* settle and the rows of the body
YahooAnswers ==
    {[outcomes |-> <<a, b, c>>, rows |-> r] :
        a \in FetchOutcomes, b \in {"ok", "http"}, c \in {"ok", "error"},
        r \in ProviderBodies}

\* data.slice(0, 15)
FmpRowLimit == 15

fetchFromAlternativeAPIs(cache, answer, draw) ==
    LET missed == getCached(cache, YahooCacheKey)
        formattedGainers == ParseRows(Slice0(answer.rows, FmpRowLimit), "financialmodelingprep")
        enhancedGainers == generateEnhancedMockData(draw)
        response == makeRequest(answer.outcomes, "cors")
    IN IF CacheHit(cache, YahooCacheKey)
       THEN [gainers |-> cache[YahooCacheKey].data, cache |-> cache, log |-> "cache",
             requests |-> 0]
       ELSE IF response.next = "return" /\ answer.rows # <<>>
       THEN [gainers |-> formattedGainers,
             cache |-> setCached(missed, YahooCacheKey, formattedGainers), log |-> "network",
             requests |-> response.attempts]
       ELSE [gainers |-> enhancedGainers,
             cache |-> setCached(missed, YahooCacheKey, enhancedGainers), log |-> "generator",
             requests |-> response.attempts]

(* SimpleCorsService *)

SimpleCacheKey == "working_apis_gainers"

\* the methods SimpleCorsService defines
SimpleCorsMethods ==
    {"getTopGainers", "fetchFromWorkingAPIs", "parseFinancialModelingPrep",
     "parseIEXCloud", "generateLiveMarketData", "getTimeBasedVariation",
     "getMarketBasedVariation", "getSectorVariation", "getVolatilityVariation",
     "generateRealisticVolume", "isMarketHours", "isMarketDay",
     "analyzeBulkSentiment", "calculateAdvancedSentiment",
     "getMarketSentimentContext", "getSentimentLabel", "parseVolume",
     "formatVolume", "getCached", "setCached", "clearCache", "getCacheStats"}

\* workingAPIs of fetchFromWorkingAPIs: the method each parser calls and the
\* tag that method would give
workingAPIs ==
    <<[name |-> "Alpha Vantage Demo", parser |-> "parseAlphaVantage", tag |-> "alphavantage"],
      [name |-> "Yahoo Finance Alternative", parser |-> "parseYahooTrending", tag |-> "yahoo_trending"]>>

\* what fetch does for one entry of workingAPIs
SimpleAnswers ==
    {[kind |-> k, rows |-> <<>>] : k \in {"network", "http"}} \cup
    {[kind |-> "ok", rows |-> b] : b \in ProviderBodies \ {<<>>}}

\* one iteration of the loop over workingAPIs: the list it returns, or <<>>
\* when the loop continues (fetch threw, the response was not ok, the parser
\* threw or returned nothing)
WorkingAPIResult(api, answer) ==
    IF answer.kind = "ok" /\ api.parser \in SimpleCorsMethods
    THEN ParseRows(answer.rows, api.tag)
    ELSE <<>>

fetchFromWorkingAPIs(cache, answers) ==
    LET missed == getCached(cache, SimpleCacheKey)
        first == WorkingAPIResult(workingAPIs[1], answers[1])
        second == WorkingAPIResult(workingAPIs[2], answers[2])
        gainers == IF first # <<>> THEN first ELSE second
    IN IF CacheHit(cache, SimpleCacheKey)
       THEN [threw |-> FALSE, gainers |-> cache[SimpleCacheKey].data, cache |-> cache, log |-> "cache",
             requests |-> 0]
       ELSE IF gainers # <<>>
       THEN [threw |-> FALSE, gainers |-> gainers,
             cache |-> setCached(missed, SimpleCacheKey, gainers), log |-> "network",
             requests |-> IF first # <<>> THEN 1 ELSE 2]
       ELSE [threw |-> TRUE, gainers |-> <<>>, cache |-> missed, log |-> "failed",
             requests |-> Len(workingAPIs)]

LiveAmplitude == 1400
LiveFloor == 100

\* a record of generateLiveMarketData; baseStocks carries the symbols and
\* base changes of baseGainers
LiveMarketQuote(stock, changeVariation) ==
    Quote(stock.symbol, Max(LiveFloor, stock.baseChange + changeVariation),
          "enhanced_realistic", "synthetic")

generateLiveMarketData(draw) ==
    [k \in DOMAIN baseGainers |-> LiveMarketQuote(baseGainers[k], draw[k])]

(* Part III: the TTL caches: cache of utils/helpers.js and this.cache of   *)
(* the three gainers services, with timestamps                             *)

CacheOwners == {"helpers", "yahoo", "realtime", "simple"}

\* CONSTANTS.CACHE_DURATION, this.config.cacheTimeout and this.cacheTimeout,
\* in milliseconds
CacheDuration(owner) ==
    IF owner = "realtime" THEN 2 * 60 * 1000 ELSE 5 * 60 * 1000

\* MAX_CACHE_SIZE and this.config.maxCacheSize are 50; the model
\* runs the same code with a small maximum
MaxCacheSize == 2

\* cache.set of helpers.js and setCached of RealYahooFinanceService limit
\* the size; setCached of the two other services does not
HasMaxSize(owner) == owner \in {"helpers", "yahoo"}

\* one key more than the maximum
StoreKeys == 1..(MaxCacheSize + 1)
Payloads == {"p", "q"}

\* how often the clock may advance
MaxTicks == 2

\* a Map as the sequence of its entries in insertion order
MapHas(m, key) == \E i \in DOMAIN m : m[i].key = key
MapGet(m, key) == m[CHOOSE i \in DOMAIN m : m[i].key = key]
MapDelete(m, key) == SelectSeq(m, LAMBDA e : e.key # key)
MapSet(m, key, item) ==
    IF MapHas(m, key)
    THEN [i \in DOMAIN m |-> IF m[i].key = key THEN item ELSE m[i]]
    ELSE Append(m, item)
MapKeys(m) == [i \in DOMAIN m |-> m[i].key]

\* a comparison with its operands swapped
ExpiredReversed(item, now, owner) == item.timestamp - now > CacheDuration(owner)

\* now - item.timestamp > CACHE_DURATION
Expired(item, now, owner) == now - item.timestamp > CacheDuration(owner)

\* cache.get(key) / getCached(key): the Map afterwards and the value returned
cacheGet(m, key, now, owner) ==
    IF ~MapHas(m, key)
    THEN [store |-> m, found |-> FALSE, hit |-> FALSE, data |-> "null"]
    ELSE IF Expired(MapGet(m, key), now, owner)
    THEN [store |-> MapDelete(m, key), found |-> TRUE, hit |-> FALSE, data |-> "null"]
    ELSE [store |-> m, found |-> TRUE, hit |-> TRUE, data |-> MapGet(m, key).data]

\* a size check that lets the Map grow to one entry more
cacheSetLate(m, key, data, now, owner) ==
    LET trimmed == IF HasMaxSize(owner) /\ Len(m) > MaxCacheSize
                   THEN MapDelete(m, m[1].key) ELSE m
    IN MapSet(trimmed, key, [key |-> key, data |-> data, timestamp |-> now])

\* cache.set(key, data) / setCached(key, data)
cacheSet(m, key, data, now, owner) ==
    LET trimmed == IF HasMaxSize(owner) /\ Len(m) >= MaxCacheSize
                   THEN MapDelete(m, m[1].key) ELSE m
    IN MapSet(trimmed, key, [key |-> key, data |-> data, timestamp |-> now])

NoWrite == [data |-> "null", time |-> -1]
NoOp == [op |-> "none", key |-> 0, found |-> FALSE, hit |-> FALSE,
         data |-> "null", before |-> <<>>]

\* the key whose last write the history records
WatchedKey == 1

\* the history stops recording the keys set since the last clear
Void == <<0>>

CacheInit ==
    /\ store = <<>>
    /\ clock = [now |-> 0, ticks |-> 0]
    /\ cop = NoOp
    /\ chist = [written |-> NoWrite, puts |-> <<>>, lastHit |-> 0]

(* Part IV: sentiment scoring.  Scores are integers in millionths. *)

One == 1000000

Abs(x) == IF x < 0 THEN -x ELSE x

\* Math.max(-1, Math.min(1, score))
Clamp(score) == IF score > One THEN One ELSE IF score < -One THEN -One ELSE score

\* positiveWords and negativeWords of calculateSentiment
positiveWords ==
    {"beat", "strong", "growth", "profit", "gain", "rise", "up", "positive",
     "good", "success", "win", "boost", "improve", "bullish", "upgrade",
     "buy", "outperform", "exceed", "higher", "increase", "rally", "surge"}

negativeWords ==
    {"miss", "weak", "loss", "fall", "down", "negative", "bad", "fail",
     "drop", "decline", "bearish", "concern", "risk", "downgrade", "sell",
     "underperform", "lower", "decrease", "crash", "plunge", "warning"}

\* word.includes(term)
Includes(word, term) ==
    \E i \in 1..(Len(word) - Len(term) + 1) :
        SubSeq(word, i, i + Len(term) - 1) = term

\* the words a headline is made of, and what toLowerCase makes of each
Vocabulary == {"Surge", "up/down", "warning", "the"}

lowerCaseWord(word) == IF word = "Surge" THEN "surge" ELSE word

\* a text is the sequence of its words: text.lowerCaseWord().split(/\s+/)
Texts == {<<>>} \cup {<<w>> : w \in Vocabulary}
                \cup {<<v, w>> : v \in Vocabulary, w \in Vocabulary}

Words(text) == [i \in DOMAIN text |-> lowerCaseWord(text[i])]

\* Math.sqrt of a small count, in thousandths, rounded down
SqrtThousandths(n) ==
    CHOOSE r \in 0..3000 : r * r <= n * One /\ (r + 1) * (r + 1) > n * One

calculateSentiment(text) ==
    IF text = <<>> THEN 0
    ELSE LET words == Words(text)
             pos == {i \in DOMAIN words : \E p \in positiveWords : Includes(words[i], p)}
             neg == {i \in DOMAIN words : \E n \in negativeWords : Includes(words[i], n)}
             score == 100000 * Cardinality(pos) - 100000 * Cardinality(neg)
             wordCount == Cardinality(pos) + Cardinality(neg)
         IN Clamp(IF wordCount > 0
                  THEN (score * 1000) \div SqrtThousandths(wordCount)
                  ELSE score)

\* what a provider puts in the sentiment field of an article: nothing, a
\* label, or a number
Undefined == [type |-> "undefined", label |-> "", number |-> 0]
Label(l) == [type |-> "string", label |-> l, number |-> 0]
Number(x) == [type |-> "number", label |-> "", number |-> x]

ProviderSentiments ==
    {Undefined, Label("Positive"), Label("negative"), Label("mixed"),
     Number(250000), Number(1500000), Number(-1200000)}

SentimentArticles ==
    [text : Texts, provided : {Undefined}]
        \cup [text : {<<>>, <<"Surge">>}, provided : ProviderSentiments]

\* entity.sentiment_score (a number) when it is there, else the score of
\* the text
extractMarketauxSentiment(article) ==
    IF article.provided.type = "number"
    THEN article.provided.number
    ELSE calculateSentiment(article.text)

normalizeSentiment(sentiment) ==
    IF sentiment.type = "string"
    THEN CASE sentiment.label \in {"Positive", "positive"} -> 500000
           [] sentiment.label \in {"Negative", "negative"} -> -500000
           [] OTHER -> 0
    ELSE IF sentiment.type = "number" THEN sentiment.number ELSE 0

\* parseFloat(article.overall_sentiment_score || 0)
parseOverallSentimentScore(provided) ==
    IF provided.type = "number" THEN provided.number ELSE 0

\* the sentiment field of the record each adapter builds
RecordSentiment(source, article) ==
    CASE source = "marketaux"    -> extractMarketauxSentiment(article)
      [] source = "finnhub"      -> calculateSentiment(article.text)
      [] source = "stocknewsapi" -> normalizeSentiment(article.provided)
      [] source = "alphavantage" -> parseOverallSentimentScore(article.provided)

getSentimentLabel(score) ==
    IF score > 200000 THEN "Positive"
    ELSE IF score < -200000 THEN "Negative" ELSE "Neutral"

NoSentiment == [kind |-> "null", score |-> 0, label |-> "", confidence |-> 0]
Result(score, confidence) ==
    [kind |-> "result", score |-> score, label |-> getSentimentLabel(score),
     confidence |-> confidence]

RECURSIVE Sum(_)
Sum(s) == IF s = <<>> THEN 0 ELSE Head(s) + Sum(Tail(s))

\* the article.sentiment values handed to calculateOverallSentiment; null
\* stands for every value that is not a number
ArticleSentiments == {[null |-> TRUE, value |-> 0]} \cup
    {[null |-> FALSE, value |-> RecordSentiment(s, a)] :
        s \in {"stocknewsapi", "alphavantage"},
        a \in [text : {<<>>}, provided : ProviderSentiments]}

calculateOverallSentiment(articles) ==
    LET kept == SelectSeq(articles, LAMBDA a : ~a.null)
        sentiments == [i \in DOMAIN kept |-> kept[i].value]
    IN IF articles = <<>> \/ sentiments = <<>> THEN NoSentiment
       ELSE LET avgSentiment == Sum(sentiments) \div Len(sentiments)
            IN Result(avgSentiment, Abs(avgSentiment) * 100)

\* the clock and Math.random() as the scoring code reads them
Environments == [day : {1, 6}, hour : {6, 12, 15, 18}, minute : {30},
                 random : {0, 999999}]

NoEnvironment == [day |-> 0, hour |-> 0, minute |-> 0, random |-> 0]

isMarketHours(env) ==
    (env.hour > 9 \/ (env.hour = 9 /\ env.minute >= 30)) /\ env.hour < 16

isMarketDay(env) == env.day >= 1 /\ env.day <= 5

\* the stock records handed to analyzeBulkSentiment
UndefinedChange == [sign |-> "", hundredths |-> 0, unit |-> "undefined"]
NoVolume == [num |-> 0, suffix |-> "N/A"]

BulkStock(change, volume, sector, marketCap, source) ==
    [symbol |-> "NVDA", change |-> change, volume |-> volume,
     sector |-> sector, marketCap |-> marketCap, source |-> source]

BulkStocks ==
    {BulkStock(UndefinedChange, NoVolume, "Technology", "2.1T", "enhanced_realistic"),
     BulkStock(FormatChange(500), NoVolume, "Automotive", "792B", "enhanced_realistic"),
     BulkStock(FormatChange(2500), [num |-> 60, suffix |-> "M"], "Technology", "2.1T",
               "yahoo_finance_realtime"),
     BulkStock(FormatChange(12000), [num |-> 60, suffix |-> "M"], "Technology", "792B",
               "yahoo_finance_realtime")}

parseVolume(volume) ==
    IF volume = NoVolume THEN 0
    ELSE IF volume.suffix = "M" THEN volume.num * 1000000
    ELSE IF volume.suffix = "K" THEN volume.num * 1000
    ELSE volume.num

\* RealTimeGainersService
calculateRealTimeSentiment(stock, changePercent) ==
    LET base == IF changePercent >= 10000 THEN 950000
                ELSE IF changePercent >= 7000 THEN 800000
                ELSE IF changePercent >= 5000 THEN 650000
                ELSE IF changePercent >= 3000 THEN 450000
                ELSE IF changePercent >= 2000 THEN 250000
                ELSE IF changePercent >= 1000 THEN 100000 ELSE 0
        volumeNum == parseVolume(stock.volume)
        vol == IF stock.volume = NoVolume THEN 0
               ELSE IF volumeNum > 10000000 THEN 100000
               ELSE IF volumeNum > 5000000 THEN 50000 ELSE 0
        sourceBonus == CASE stock.source = "yahoo_finance_realtime" -> 100000
                         [] stock.source = "cnbc_realtime" -> 80000
                         [] stock.source = "polygon_realtime" -> 60000
                         [] stock.source = "iex_realtime" -> 50000
                         [] OTHER -> 0
    IN base + vol + sourceBonus

getRealTimeMarketContext(env) ==
    LET base == IF isMarketHours(env) /\ isMarketDay(env) THEN 200000
                ELSE IF isMarketDay(env) THEN 100000 ELSE -100000
        adjust == IF ~isMarketHours(env) THEN 0
                  ELSE IF env.hour = 9 THEN 100000
                  ELSE IF env.hour = 15 /\ env.minute >= 30 THEN 150000
                  ELSE IF env.hour = 12 THEN -50000 ELSE 0
    IN base + adjust

\* RealYahooFinanceService
calculateSentimentScore(changePercent, stock) ==
    LET base == IF changePercent >= 5000 THEN 900000
                ELSE IF changePercent >= 4000 THEN 700000
                ELSE IF changePercent >= 3000 THEN 500000
                ELSE IF changePercent >= 2000 THEN 300000
                ELSE IF changePercent >= 1000 THEN 100000 ELSE 0
        volumeNum == parseVolume(stock.volume)
        vol == IF volumeNum > 50000000 THEN 100000
               ELSE IF volumeNum > 20000000 THEN 50000 ELSE 0
        sector == IF stock.sector = "Technology" THEN 50000 ELSE 0
    IN base + vol + sector

\* baseScore + (Math.random() - 0.5) * 0.3
getMarketSentiment(env) ==
    (IF env.hour >= 9 /\ env.hour <= 16 THEN 100000 ELSE 0)
        + ((env.random - 500000) * 3) \div 10

\* SimpleCorsService
calculateAdvancedSentiment(stock, changePercent) ==
    LET base == IF changePercent >= 5000 THEN 900000
                ELSE IF changePercent >= 4000 THEN 700000
                ELSE IF changePercent >= 3000 THEN 500000
                ELSE IF changePercent >= 2000 THEN 300000
                ELSE IF changePercent >= 1000 THEN 100000 ELSE 0
        volumeNum == parseVolume(stock.volume)
        vol == IF volumeNum > 50000000 THEN 150000
               ELSE IF volumeNum > 25000000 THEN 100000
               ELSE IF volumeNum > 10000000 THEN 50000 ELSE 0
        sectorBonus == CASE stock.sector = "Technology" -> 100000
                         [] stock.sector = "Semiconductors" -> 80000
                         [] stock.sector = "Software" -> 60000
                         [] stock.sector = "E-commerce" -> 40000
                         [] stock.sector = "Fintech" -> 20000
                         [] OTHER -> 0
        score == base + vol + sectorBonus
    IN IF Includes(stock.marketCap, "T") THEN (score * 9) \div 10 ELSE score

\* Math.sin(hour / 24 * Math.PI * 2), rounded to millionths
SinOfHour(hour) ==
    CASE hour = 6 -> 1000000
      [] hour = 12 -> 0
      [] hour = 15 -> -707107
      [] hour = 18 -> -1000000
      [] OTHER -> 0

getMarketSentimentContext(env) ==
    (IF isMarketHours(env) /\ isMarketDay(env) THEN 100000
     ELSE IF isMarketDay(env) THEN 50000 ELSE -50000)
        + SinOfHour(env.hour) \div 10

BulkServices == {"realtime", "yahoo", "simple"}

\* the entry of the catch branch; getDefaultSentiment of the Yahoo service
getDefaultSentiment == Result(0, 50 * One)

\* one round of the loop of analyzeBulkSentiment
analyzeBulkSentiment(svc, stock, env) ==
    IF stock.change = UndefinedChange
    THEN getDefaultSentiment    \* stock.change.replace throws a TypeError
    ELSE LET changePercent == ParseChange(stock.change)
             raw == CASE svc = "realtime" ->
                           (calculateRealTimeSentiment(stock, changePercent) * 85
                              + getRealTimeMarketContext(env) * 15) \div 100
                      [] svc = "yahoo" ->
                           (calculateSentimentScore(changePercent, stock) * 8
                              + getMarketSentiment(env) * 2) \div 10
                      [] svc = "simple" ->
                           (calculateAdvancedSentiment(stock, changePercent) * 8
                              + getMarketSentimentContext(env) * 2) \div 10
             sentimentScore == Clamp(raw)
         IN Result(sentimentScore, Abs(sentimentScore) * 100)

NoArgument == [kind |-> "none"]

SentimentInit ==
    sent = [fn |-> "none", svc |-> "", arg |-> NoArgument,
            env |-> NoEnvironment, ret |-> NoSentiment]

(* Part V: makeRequest of RealYahooFinanceService and the rate limiter *)

NoRequest ==
    [pc |-> "idle", url |-> "", mode |-> "", attempt |-> 0, outcomes |-> <<>>,
     waits |-> <<>>, message |-> ""]

\* the names the limiter is asked about
LimitedApis == {"marketaux", "finnhub"}

\* rateLimiter.limits = new Map()
NoLimits == [a \in LimitedApis |-> [has |-> FALSE, requests |-> <<>>]]

NoLimiterCall == [apiName |-> "", returned |-> FALSE, before |-> NoLimits]

\* the limiter of a fresh page, asked by a caller that passes the same
\* maxRequests and windowMs with every call
NewLimiter(maxRequests, windowMs) ==
    [limits |-> NoLimits, now |-> 0,
     maxRequests |-> maxRequests, windowMs |-> windowMs,
     granted |-> [a \in LimitedApis |-> <<>>],
     last |-> NoLimiterCall]

UtilInit ==
    /\ req = NoRequest
    /\ limiter = NewLimiter(0, 0)

-----------------------------------------------------------------------------
(* getTopGainers as a state machine *)

NoOptions == [limit |-> 0, minPercentChange |-> 0]

\* nothing invoked yet in this call
NoHistory == [requests |-> 0, message |-> "", fault |-> "none", tried |-> <<>>]

\* the history after an adapter was invoked: the fetches it issued, what
\* the network did, what the adapter threw, whether it threw and how many
\* of its quotes pass the filter
Tried(h, source, requests, fault, threw, message, passing) ==
    [requests |-> requests, message |-> message, fault |-> fault,
     tried |-> Append(h.tried, [source |-> source, threw |-> threw, passing |-> passing])]

GainersInit ==
    /\ gpc = "idle"
    /\ gopts = NoOptions
    /\ gidx = 0
    /\ gcache = [k \in CacheKeys(service) |-> NoEntry]
    /\ glog = "none"
    /\ gresult = <<>>
    /\ goutcome = "none"
    /\ ghist = NoHistory

Init ==
    /\ service \in Services
    /\ NewsInit
    /\ service # "news" => \A s \in Sources : apis[s] = NoKey
    /\ GainersInit
    /\ CacheInit
    /\ SentimentInit
    /\ UtilInit

\* getTopGainers({limit, minPercentChange}) up to its first await
GainersCall ==
    /\ service \in {"realtime", "yahoo", "simple"}
    /\ gpc = "idle"
    /\ \E limit \in 1..MaxLimit, minPercentChange \in MinPercentChoices :
        gopts' = [limit |-> limit, minPercentChange |-> minPercentChange]
    /\ gpc' = "trying"
    /\ gidx' = 1
    /\ UNCHANGED <<newsVars, cacheVars, sent, service, gcache, glog, gresult, goutcome, ghist, utilVars>>

\* the test under which the loop over sources returns with the unfiltered
\* list in place of the filtered one
RealTimeYieldsUnfiltered(f, filtered) == ~f.threw /\ f.gainers # <<>>

\* the test under which the loop over sources returns `filtered`
RealTimeYields(f, filtered) == ~f.threw /\ f.gainers # <<>> /\ filtered # <<>>

\* RealTimeGainersService.getTopGainers: one iteration of the loop over
\* sources, `await sources[i]()` and what follows it
RealTimeTry ==
    /\ service = "realtime"
    /\ gpc = "trying"
    /\ \E answer \in RealTimeAnswers(gidx) :
        LET f == RealTimeFetch(gidx, gcache, answer)
            filtered == Slice0(FilterMin(f.gainers, gopts.minPercentChange), gopts.limit)
        IN /\ gcache' = f.cache
           /\ ghist' = Tried(ghist, gidx, f.requests,
                             IF f.log = "cache" THEN "none" ELSE answer.fault,
                             f.threw, f.message,
                             Len(FilterMin(f.gainers, gopts.minPercentChange)))
           /\ IF RealTimeYields(f, filtered)
              THEN /\ gresult' = filtered
                   /\ goutcome' = "resolved"
                   /\ glog' = f.log
                   /\ gpc' = "done"
                   /\ gidx' = gidx
              ELSE IF gidx = RealTimeSourceCount
              THEN /\ gresult' = <<>>
                   /\ goutcome' = "rejected"
                   /\ glog' = "failed"
                   /\ gpc' = "done"
                   /\ gidx' = gidx
              ELSE /\ gidx' = gidx + 1
                   /\ UNCHANGED <<gresult, goutcome, glog, gpc>>
    /\ UNCHANGED <<newsVars, cacheVars, sent, service, gopts, utilVars>>

\* RealYahooFinanceService.getTopGainers: fetchFromAlternativeAPIs neither
\* throws nor returns an empty list, so the loop over methods returns in its
\* first iteration
YahooTry ==
    /\ service = "yahoo"
    /\ gpc = "trying"
    /\ \E answer \in YahooAnswers, draw \in Draws(EnhancedAmplitude) :
        LET f == fetchFromAlternativeAPIs(gcache, answer, draw) IN
        /\ gcache' = f.cache
        /\ glog' = f.log
        /\ gresult' = Slice0(FilterMin(f.gainers, gopts.minPercentChange), gopts.limit)
        /\ ghist' = Tried(ghist, 1, f.requests, "none", FALSE, "",
                          Len(FilterMin(f.gainers, gopts.minPercentChange)))
    /\ goutcome' = "resolved"
    /\ gpc' = "done"
    /\ UNCHANGED <<newsVars, cacheVars, sent, service, gopts, gidx, utilVars>>

\* SimpleCorsService.getTopGainers
SimpleTry ==
    /\ service = "simple"
    /\ gpc = "trying"
    /\ \E first \in SimpleAnswers, second \in SimpleAnswers, draw \in Draws(LiveAmplitude) :
        LET f == fetchFromWorkingAPIs(gcache, <<first, second>>) IN
        /\ gcache' = f.cache
        /\ ghist' = Tried(ghist, 1, f.requests, "none", f.threw, "",
                          Len(FilterMin(f.gainers, gopts.minPercentChange)))
        /\ IF ~f.threw /\ f.gainers # <<>>
           THEN /\ gresult' = Slice0(f.gainers, gopts.limit)
                /\ glog' = f.log
           ELSE /\ gresult' = Slice0(generateLiveMarketData(draw), gopts.limit)
                /\ glog' = "generator"
    /\ goutcome' = "resolved"
    /\ gpc' = "done"
    /\ UNCHANGED <<newsVars, cacheVars, sent, service, gopts, gidx, utilVars>>

\* the clock passes cacheTimeout since the entry of key was stored
CacheExpires(key) ==
    /\ key \in DOMAIN gcache
    /\ gcache[key].age = "fresh"
    /\ gcache' = [gcache EXCEPT ![key].age = "stale"]
    /\ UNCHANGED <<newsVars, cacheVars, sent, service, gpc, gopts, gidx, glog, gresult, goutcome, ghist, utilVars>>

\* the caller has taken the list; only this.cache outlives the call
GainersReturn ==
    /\ gpc = "done"
    /\ gpc' = "idle"
    /\ gopts' = NoOptions
    /\ gidx' = 0
    /\ glog' = "none"
    /\ gresult' = <<>>
    /\ goutcome' = "none"
    /\ ghist' = NoHistory
    /\ UNCHANGED <<newsVars, cacheVars, sent, service, gcache, utilVars>>

AllCacheKeys == UNION {CacheKeys(svc) : svc \in Services}

Next ==
    \/ Call
    \/ \E i \in 1..3 : SettleFailure(i)
    \/ \E i \in 1..3 : SettleSuccess(i)
    \/ \E i \in 1..3 : NeverResponds(i)
    \/ Resolve
    \/ Return
    \/ GainersCall
    \/ RealTimeTry
    \/ YahooTry
    \/ SimpleTry
    \/ \E key \in AllCacheKeys : CacheExpires(key)
    \/ GainersReturn

Spec == Init /\ [][Next]_vars

\* a caller of the news service that also passes invalid symbols and repeats
\* calls, with Marketaux configured and Finnhub configured or not
InitCaller ==
    /\ Init
    /\ service = "news"
    /\ apis["marketaux"] = LiveKey
    /\ apis["finnhub"] \in {NoKey, LiveKey}
    /\ apis["stocknewsapi"] = NoKey
    /\ apis["alphavantage"] = NoKey

NextCaller ==
    \/ Call
    \/ CallInvalid
    \/ CallAgain
    \/ \E i \in 1..3 : SettleFailure(i)
    \/ \E i \in 1..3 : SettleSuccess(i)
    \/ \E i \in 1..3 : NeverResponds(i)
    \/ Resolve
    \/ Return

SpecCaller == InitCaller /\ [][NextCaller]_vars

-----------------------------------------------------------------------------
(* Properties of getComprehensiveNews *)

Min(a, b) == IF a < b THEN a ELSE b

\* the adapters of the call that succeeded, and what they delivered
Fulfilled == {i \in DOMAIN adapters : adapters[i].state = "fulfilled"}

RECURSIVE DeliveredFrom(_)
DeliveredFrom(i) ==
    IF i > Len(adapters) THEN <<>>
    ELSE (IF adapters[i].state = "fulfilled" THEN adapters[i].articles ELSE <<>>)
         \o DeliveredFrom(i + 1)

Delivered == DeliveredFrom(1)

Elements(q) == {q[i] : i \in DOMAIN q}

IsSyntheticResult(r) ==
    \E i \in DOMAIN r.articles : r.articles[i].origin = "synthetic"

\* the title prefix the specification calls normalized
NormalizedPrefix(a) == Canon(substring0(toLowerCase(a.title), TitlePrefixLen))

\* C1: whatever the symbol, the options and the outcome of each adapter
\* (success, thrown error, non-2xx response, malformed body), the call
\* resolves with a result object and never rejects.
C1_NeverRejects ==
    /\ outcome # "rejected"
    /\ pc = "done" => outcome = "resolved" /\ result.symbol = call.symbol

\* a call resolved although an adapter failed after its outbound call and a
\* delivered body made the deduplicator throw
C1_Witness ==
    /\ pc = "done" /\ outcome = "resolved"
    /\ \E i \in DOMAIN adapters :
        adapters[i].state = "rejected" /\ adapters[i].error \notin KeyErrorTexts
    /\ DedupThrows(Delivered)

\* C2: the resolved result lists in `sources` one entry for every attempted
\* adapter (success with its record count, error with its error text), also
\* when no adapter succeeded and the result is synthetic.
C2_ManifestCoversAttempts ==
    pc = "done" =>
        \A i \in DOMAIN adapters :
            \E j \in DOMAIN result.sources :
                /\ result.sources[j].name = adapters[i].source
                /\ IF adapters[i].state = "fulfilled"
                   THEN /\ result.sources[j].status = "success"
                        /\ result.sources[j].count = Len(adapters[i].articles)
                   ELSE /\ result.sources[j].status = "error"
                        /\ result.sources[j].error = adapters[i].error

\* C3: when at least one attempted adapter succeeded the returned records are
\* drawn only from the merged records of the successful adapters; synthetic
\* records are returned only when no adapter succeeded.
C3_MockOnlyWhenNoSuccess ==
    (pc = "done" /\ Fulfilled # {}) =>
        /\ ~IsSyntheticResult(result)
        /\ Elements(result.articles) \subseteq Elements(Delivered)

\* C4: every candidate adapter is invoked before the call awaits, and the
\* result is built only after every invoked adapter has settled: no adapter
\* is skipped or cut off by the failure or the success of another.
C4_AllInvokedAllSettled ==
    /\ pc \in {"awaiting", "done"} =>
        /\ Len(adapters) = Len(availableSources)
        /\ \A i \in DOMAIN adapters : adapters[i].source = availableSources[i]
    /\ pc = "done" => \A i \in DOMAIN adapters : Settled(adapters[i])

\* a call with two adapters resolved after one had failed and the other had
\* delivered, and the result carries the delivered article
C4_Witness ==
    /\ pc = "done"
    /\ Len(adapters) = 2
    /\ adapters[1].state = "rejected"
    /\ adapters[2].state = "fulfilled"
    /\ Len(adapters[2].articles) = 1
    /\ result.articles = adapters[2].articles

\* C5: the call eventually resolves in every execution, also when the
\* outbound call of an adapter never responds: every adapter call the call
\* awaits either has settled or can still end, at the latest as a failure
\* when its request-level timeout fires.
C5_EventuallyResolves ==
    pc = "awaiting" =>
        \A i \in DOMAIN adapters : Settled(adapters[i]) \/ ENABLED SettleFailure(i)

\* no preferred source gets past a credential check: none passes the filter
\* of getComprehensiveNews, or none passes the check of its own adapter
NoCandidate ==
    \/ availableSources = <<>>
    \/ \A i \in DOMAIN call.preferredSources :
        LET s == call.preferredSources[i] IN
        s \in Sources => ~AdapterKeyConfigured(s, apis[s])

\* C6: with no candidate adapter the call makes no outbound call and resolves
\* with a non-empty synthetic record set for the queried symbol.
C6_NoCandidateGivesMock ==
    (pc \in {"awaiting", "done"} /\ NoCandidate) =>
        /\ outbound = 0
        /\ pc = "done" =>
            /\ outcome = "resolved"
            /\ result.symbol = call.symbol
            /\ Len(result.articles) > 0
            /\ \A i \in DOMAIN result.articles :
                /\ result.articles[i].origin = "synthetic"
                /\ Run(call.symbol, 1) \in Elements(result.articles[i].title)

\* a call for ZZZZ naming two known sources, none of them configured
C6_Witness ==
    /\ pc = "done"
    /\ call.symbol = "ZZZZ"
    /\ Len(call.preferredSources) = 2
    /\ \A i \in DOMAIN call.preferredSources : call.preferredSources[i] \in Sources
    /\ availableSources = <<>>
    /\ Len(result.articles) > 0

\* the number of deduplicated candidates among the delivered articles
\* the tags the code gives to what it generates itself
MockIds == {MockId(k) : k \in 1..6}
SyntheticQuoteTags == {"enhanced_realistic", "fallback"}

\* what a caller reads off a record: an article by its id, a quote by its
\* source
ArticleProvenance(a) == IF a.id \in MockIds THEN "synthetic" ELSE "live"
QuoteProvenance(q) == IF q.source \in SyntheticQuoteTags THEN "synthetic" ELSE "live"

\* C7: every record a resolved getComprehensiveNews or getTopGainers call
\* returns carries a tag (the mock_N id of an article, the source of a
\* quote) that tells generated records from fetched ones and agrees with
\* how the record was really produced, also when it is served from the
\* cache; a news result holding generated articles names "Demo Data" and no
\* provider in its sources manifest, one holding fetched articles names
\* only this.apis sources.
C7_ProvenanceTagged ==
    /\ (pc = "done" /\ outcome = "resolved") =>
        /\ \A i \in DOMAIN result.articles :
              ArticleProvenance(result.articles[i]) = result.articles[i].origin
        /\ IsSyntheticResult(result) =>
              /\ \A i \in DOMAIN result.articles : result.articles[i].origin = "synthetic"
              /\ result.sources # <<>>
              /\ \A j \in DOMAIN result.sources :
                    result.sources[j].name = DemoSourceName /\ DemoSourceName \notin Sources
        /\ ~IsSyntheticResult(result) =>
              \A j \in DOMAIN result.sources : result.sources[j].name \in Sources
    /\ (gpc = "done" /\ goutcome = "resolved") =>
        \A i \in DOMAIN gresult : QuoteProvenance(gresult[i]) = gresult[i].origin

\* a getTopGainers call of RealYahooFinanceService answered from the cache
\* with records an earlier call generated
C7_Witness ==
    /\ service = "yahoo" /\ gpc = "done" /\ goutcome = "resolved"
    /\ glog = "cache"
    /\ gresult # <<>>
    /\ \A i \in DOMAIN gresult : gresult[i].origin = "synthetic"

DistinctKeys(articles) == Cardinality({DedupKey(articles[i]) : i \in DOMAIN articles})

NewestFirst(articles) ==
    \A i, j \in DOMAIN articles :
        i < j => articles[i].publishedAt >= articles[j].publishedAt

\* C8: when at least one adapter succeeded the result holds exactly
\* min(limit, number of deduplicated candidates) records, newest first, and
\* no candidate left out is newer than a returned one.
C8_DedupSortLimit ==
    (pc = "done" /\ Fulfilled # {}) =>
        /\ Len(result.articles) = Min(call.limit, DistinctKeys(Delivered))
        /\ NewestFirst(result.articles)
        /\ \A i \in DOMAIN Delivered, j \in DOMAIN result.articles :
            Delivered[i].publishedAt > result.articles[j].publishedAt =>
                \E k \in DOMAIN result.articles :
                    DedupKey(result.articles[k]) = DedupKey(Delivered[i])

\* the result shows every deduplicated candidate: live, and not truncated
ShowsAllCandidates ==
    /\ pc = "done"
    /\ Delivered # <<>>
    /\ ~DedupThrows(Delivered)
    /\ call.limit >= Len(Delivered)

\* C9 as stated: when two adapters each deliver an article with the same
\* normalized title prefix and differing source names, exactly one of the two
\* is kept.
C9_OneKeptAcrossSources ==
    ShowsAllCandidates =>
        \A m, n \in Fulfilled :
            \A x \in Elements(adapters[m].articles), y \in Elements(adapters[n].articles) :
                (/\ m < n
                 /\ NormalizedPrefix(x) = NormalizedPrefix(y)
                 /\ x.source # y.source) =>
                    Cardinality({k \in DOMAIN result.articles :
                                    result.articles[k] \in {x, y}}) = 1

\* C9 (amended): of the delivered articles that share the normalized title
\* prefix and the source name exactly one is kept, the first seen.
C9_OneKeptPerPrefixAndSource ==
    ShowsAllCandidates =>
        \A j \in DOMAIN Delivered :
            LET same == {i \in DOMAIN Delivered :
                            /\ NormalizedPrefix(Delivered[i]) = NormalizedPrefix(Delivered[j])
                            /\ Delivered[i].source = Delivered[j].source}
                first == CHOOSE i \in same : \A k \in same : i <= k
                kept == {k \in DOMAIN result.articles :
                            /\ NormalizedPrefix(result.articles[k]) = NormalizedPrefix(Delivered[j])
                            /\ result.articles[k].source = Delivered[j].source}
            IN /\ Cardinality(kept) = 1
               /\ \A k \in kept : result.articles[k] = Delivered[first]

\* two adapters each delivered an article with the same prefix (in different
\* letter case) and the same source name, and the first one was kept
C9_Witness ==
    /\ ShowsAllCandidates
    /\ Len(adapters) = 2
    /\ adapters[1].state = "fulfilled" /\ adapters[2].state = "fulfilled"
    /\ Len(adapters[1].articles) = 1 /\ Len(adapters[2].articles) = 1
    /\ adapters[1].articles[1].id = "n1" /\ adapters[2].articles[1].id = "n2"
    /\ result.articles = adapters[1].articles

\* C10: the attempted adapters are exactly the preferred sources whose own
\* credential check passes, so no attempted adapter fails with a
\* 'key not configured' error.
C10_AttemptedAreConfigured ==
    pc \in {"awaiting", "done"} =>
        /\ availableSources =
            SelectSeq(call.preferredSources,
                      LAMBDA s : s \in Sources /\ AdapterKeyConfigured(s, apis[s]))
        /\ \A i \in DOMAIN adapters : adapters[i].error \notin KeyErrorTexts

\* C11: a call whose symbol is invalid (empty or malformed) is rejected with
\* a validation error, and no call with a valid symbol is rejected.
C11_InvalidSymbolRejected ==
    pc = "done" =>
        (outcome = "rejected" <=> ~validateStockSymbol(call.symbol))

\* C12: a call that repeats the symbol and the options of the call completed
\* just before it is answered from the cache, without any outbound adapter
\* call.
C12_RepeatedCallFromCache ==
    repeated => outbound = 0

-----------------------------------------------------------------------------
(* The caches as a state machine *)

\* the keys set since the last clear, recorded as long as they are distinct
\* and no read has deleted an expired entry
RecordPut(puts, key) ==
    IF puts = Void \/ (\E i \in DOMAIN puts : puts[i] = key) THEN Void
    ELSE Append(puts, key)

\* cache.set(key, data) / setCached(key, data)
CachePut ==
    /\ service \in CacheOwners
    /\ \E key \in StoreKeys, data \in Payloads :
        /\ store' = cacheSet(store, key, data, clock.now, service)
        /\ cop' = [op |-> "set", key |-> key, found |-> MapHas(store, key),
                   hit |-> FALSE, data |-> data, before |-> MapKeys(store)]
        /\ chist' = [chist EXCEPT !.written = IF key = WatchedKey
                                                 THEN [data |-> data, time |-> clock.now]
                                                 ELSE chist.written,
                                  !.puts = RecordPut(chist.puts, key)]
    /\ UNCHANGED <<newsVars, gainersVars, clock, sent, utilVars>>

\* cache.get(key) / getCached(key)
CacheRead ==
    /\ service \in CacheOwners
    /\ \E key \in StoreKeys :
        LET r == cacheGet(store, key, clock.now, service) IN
        /\ store' = r.store
        /\ cop' = [op |-> "get", key |-> key, found |-> r.found, hit |-> r.hit,
                   data |-> r.data, before |-> MapKeys(store)]
        /\ chist' = [chist EXCEPT !.puts = IF r.found /\ ~r.hit THEN Void ELSE chist.puts,
                                  !.lastHit = IF r.hit THEN key ELSE chist.lastHit]
    /\ UNCHANGED <<newsVars, gainersVars, clock, sent, utilVars>>

\* cache.clear() / clearCache()
CacheClear ==
    /\ service \in CacheOwners
    /\ store # <<>>
    /\ store' = <<>>
    /\ cop' = [NoOp EXCEPT !.op = "clear", !.before = MapKeys(store)]
    /\ chist' = [chist EXCEPT !.puts = <<>>, !.lastHit = 0]
    /\ UNCHANGED <<newsVars, gainersVars, clock, sent, utilVars>>

\* time passes: one millisecond, or the whole duration
ClockAdvances ==
    /\ service \in CacheOwners
    /\ clock.ticks < MaxTicks
    /\ \E d \in {1, CacheDuration(service)} :
        clock' = [now |-> clock.now + d, ticks |-> clock.ticks + 1]
    /\ cop' = NoOp
    /\ UNCHANGED <<newsVars, gainersVars, store, chist, sent, utilVars>>

InitCache ==
    /\ service \in CacheOwners
    /\ NewsInit
    /\ \A s \in Sources : apis[s] = NoKey
    /\ GainersInit
    /\ CacheInit
    /\ SentimentInit
    /\ UtilInit

NextCache ==
    \/ CachePut
    \/ CacheRead
    \/ CacheClear
    \/ ClockAdvances

SpecCache == InitCache /\ [][NextCache]_vars

\* C13: a read of a key later than its write time plus the duration misses
\* and leaves no entry of the key; a read that finds the entry earlier than
\* that hits and returns the payload last written; no read returns a payload
\* older than the duration.
C13_TtlLaw ==
    (cop.op = "get" /\ cop.key = WatchedKey) =>
        LET w == chist.written
            age == clock.now - w.time
        IN /\ (w # NoWrite /\ age > CacheDuration(service)) =>
                ~cop.hit /\ ~MapHas(store, cop.key)
           /\ (cop.found /\ age < CacheDuration(service)) =>
                cop.hit /\ cop.data = w.data
           /\ cop.hit => (cop.data = w.data /\ age <= CacheDuration(service))

\* a read that found an expired entry and deleted it
C13_Witness ==
    /\ cop.op = "get" /\ cop.key = WatchedKey /\ cop.found /\ ~cop.hit
    /\ clock.now - chist.written.time > CacheDuration(service)
    /\ ~MapHas(store, cop.key)

\* C14: where a maximum is configured the Map never holds more entries than
\* the maximum, and after maximum + 1 distinct keys were set since the last
\* clear the Map holds all of them but the one set first, in the order they
\* were set, whether or not that one was read in between.
C14_CapacityInsertionOrder ==
    HasMaxSize(service) =>
        /\ Len(store) <= MaxCacheSize
        /\ (chist.puts # Void /\ Len(chist.puts) = MaxCacheSize + 1) =>
              MapKeys(store) = Tail(chist.puts)

\* maximum + 1 distinct keys were set and the one set first, just evicted,
\* was the key of the last read that hit
C14_Witness ==
    /\ HasMaxSize(service)
    /\ cop.op = "set"
    /\ chist.puts # Void /\ Len(chist.puts) = MaxCacheSize + 1
    /\ chist.lastHit = Head(chist.puts)
    /\ ~MapHas(store, Head(chist.puts))

\* C15: a set evicts only when it would take the Map beyond the maximum:
\* setting a key that is present, or setting any key below the maximum,
\* leaves every other entry in place.
C15_OverwriteEvictsNothing ==
    (cop.op = "set" /\ (cop.found \/ Len(cop.before) < MaxCacheSize)) =>
        \A i \in DOMAIN cop.before : MapHas(store, cop.before[i])

-----------------------------------------------------------------------------
(* Sentiment scoring as a state machine *)

\* an adapter builds the record of one article
ScoreArticle ==
    /\ service = "sentiment"
    /\ \E source \in Sources, article \in SentimentArticles :
        sent' = [fn |-> "record", svc |-> source, arg |-> article,
                 env |-> NoEnvironment,
                 ret |-> [NoSentiment EXCEPT !.kind = "result",
                                          !.score = RecordSentiment(source, article)]]
    /\ UNCHANGED <<newsVars, gainersVars, cacheVars, utilVars>>

\* calculateSentiment(text)
ScoreText ==
    /\ service = "sentiment"
    /\ \E text \in Texts :
        sent' = [fn |-> "calculateSentiment", svc |-> "news", arg |-> text,
                 env |-> NoEnvironment,
                 ret |-> Result(calculateSentiment(text), 0)]
    /\ UNCHANGED <<newsVars, gainersVars, cacheVars, utilVars>>

\* calculateOverallSentiment(articles)
ScoreOverall ==
    /\ service = "sentiment"
    /\ \E articles \in {<<>>} \cup {<<a>> : a \in ArticleSentiments}
                       \cup {<<a, b>> : a \in ArticleSentiments, b \in ArticleSentiments} :
        sent' = [fn |-> "calculateOverallSentiment", svc |-> "news",
                 arg |-> articles, env |-> NoEnvironment,
                 ret |-> calculateOverallSentiment(articles)]
    /\ UNCHANGED <<newsVars, gainersVars, cacheVars, utilVars>>

\* analyzeBulkSentiment([stock]) at some moment
ScoreBulk ==
    /\ service = "sentiment"
    /\ \E svc \in BulkServices, stock \in BulkStocks, env \in Environments :
        sent' = [fn |-> "analyzeBulkSentiment", svc |-> svc, arg |-> stock,
                 env |-> env, ret |-> analyzeBulkSentiment(svc, stock, env)]
    /\ UNCHANGED <<newsVars, gainersVars, cacheVars, utilVars>>

InitSentiment ==
    /\ service = "sentiment"
    /\ NewsInit
    /\ \A s \in Sources : apis[s] = NoKey
    /\ GainersInit
    /\ CacheInit
    /\ SentimentInit
    /\ UtilInit

NextSentiment ==
    \/ ScoreArticle
    \/ ScoreText
    \/ ScoreOverall
    \/ ScoreBulk

SpecSentiment == InitSentiment /\ [][NextSentiment]_vars

\* C16: no sentiment score lies outside [-1, 1]: not the sentiment of a
\* record an adapter builds, not the score of calculateOverallSentiment,
\* not a score of analyzeBulkSentiment.
C16_ScoreWithinBounds ==
    (sent.fn # "none" /\ sent.ret.kind = "result") =>
        (sent.ret.score >= -One /\ sent.ret.score <= One)

\* C17: every entry of analyzeBulkSentiment, the entry of a stock whose
\* analysis failed included, and the result of calculateOverallSentiment
\* carry confidence = |score| * 100.
C17_ConfidenceFromScore ==
    (sent.fn \in {"analyzeBulkSentiment", "calculateOverallSentiment"}
        /\ sent.ret.kind = "result") =>
        sent.ret.confidence = Abs(sent.ret.score) * 100

\* C18: two scoring runs of the same function on the same text or the same
\* stock record give the same score and the same label.
C18_SameInputSameScore ==
    [][(/\ sent.fn \in {"calculateSentiment", "analyzeBulkSentiment"}
        /\ sent'.fn = sent.fn /\ sent'.svc = sent.svc /\ sent'.arg = sent.arg)
          => (sent'.ret.score = sent.ret.score /\ sent'.ret.label = sent.ret.label)]_vars

-----------------------------------------------------------------------------
(* Properties of getTopGainers *)

\* C19: a getTopGainers call that got data from no source does not fail: it
\* resolves, and with generated records only; so for each of the three
\* services.
C19_DegradesToSynthetic ==
    (gpc = "done" /\ glog \in {"failed", "generator"}) =>
        /\ goutcome = "resolved"
        /\ \A i \in DOMAIN gresult : gresult[i].origin = "synthetic"

\* C20: the list a getTopGainers call resolves with is in descending order
\* of percent change.
C20_SortedByChangeDescending ==
    (gpc = "done" /\ goutcome = "resolved") =>
        \A i, j \in DOMAIN gresult :
            i < j => ParseChange(gresult[i].change) >= ParseChange(gresult[j].change)

-----------------------------------------------------------------------------
(* The gainers services on their own *)

InitGainers ==
    /\ Init
    /\ service \in {"realtime", "yahoo", "simple"}

NextGainers ==
    \/ GainersCall
    \/ RealTimeTry
    \/ YahooTry
    \/ SimpleTry
    \/ \E key \in AllCacheKeys : CacheExpires(key)
    \/ GainersReturn

SpecGainers == InitGainers /\ [][NextGainers]_vars

LastTried == ghist.tried[Len(ghist.tried)]

\* C21: an adapter invocation issues at most one fetch: none when it is
\* answered from the cache, one otherwise.
C21_OneRequestPerInvocation ==
    ghist.tried # <<>> => ghist.requests <= 1

\* C22: in RealTimeGainersService a request aborted after requestTimeout
\* makes its source throw "... failed: Request timeout" and nothing else:
\* the loop goes on with the next source, or the call rejects when the
\* source was the last one, as after a fetch that was rejected.
C22_TimeoutIsOrdinaryFailure ==
    (service = "realtime" /\ ghist.tried # <<>> /\ ghist.fault = "timeout") =>
        /\ LastTried.threw
        /\ LastTried.source # 4 =>
              ghist.message = RealTimeSourceName(LastTried.source) \o " failed: Request timeout"
        /\ IF LastTried.source < RealTimeSourceCount
           THEN gpc = "trying" /\ gidx = LastTried.source + 1 /\ goutcome = "none"
           ELSE gpc = "done" /\ goutcome = "rejected"

\* the request of the first source timed out and the loop stands at the
\* second source
C22_Witness ==
    /\ service = "realtime" /\ ghist.fault = "timeout"
    /\ Len(ghist.tried) = 1 /\ LastTried.threw
    /\ gpc = "trying" /\ gidx = 2

\* where an article first stands in a list
FirstIndex(a, q) == CHOOSE i \in DOMAIN q : q[i] = a /\ \A j \in 1..(i - 1) : q[j] # a

C24_ResultWithinLimit ==
    /\ (pc = "done" /\ outcome = "resolved") => Len(result.articles) <= call.limit
    /\ (gpc = "done" /\ goutcome = "resolved") => Len(gresult) <= gopts.limit

\* C25: every quote a resolved getTopGainers call returns has a percent
\* change, as its change text states it, of at least options.minPercentChange.
C25_QuotesReachMinimum ==
    (gpc = "done" /\ goutcome = "resolved") =>
        \A i \in DOMAIN gresult :
            ParseChange(gresult[i].change) >= gopts.minPercentChange

\* an invoked source gave a list of which a quote passed the filter
Yielded(t) == ~t.threw /\ t.passing > 0

\* C26: RealTimeGainersService.getTopGainers invokes its sources in the
\* order 1..5, the next one only when none before it gave a quote that
\* passes the filter; once a source gave one the call resolves with fetched
\* quotes only and invokes no further source; it rejects exactly when all
\* five sources were invoked and none gave one.
C26_SourcesInPriorityOrder ==
    service = "realtime" =>
        LET n == Len(ghist.tried) IN
        /\ \A k \in 1..n : ghist.tried[k].source = k
        /\ \A k \in 1..(n - 1) : ~Yielded(ghist.tried[k])
        /\ (n > 0 /\ Yielded(ghist.tried[n])) => (gpc = "done" /\ goutcome = "resolved")
        /\ gpc = "done" =>
              /\ goutcome = "rejected" <=>
                    (n = RealTimeSourceCount /\ \A k \in 1..n : ~Yielded(ghist.tried[k]))
              /\ goutcome = "resolved" =>
                    /\ Yielded(ghist.tried[n])
                    /\ gresult # <<>>
                    /\ \A i \in DOMAIN gresult : gresult[i].origin = "live"

\* the first source threw, the second gave quotes of which none passed the
\* filter, the third gave the list of the call
C26_Witness ==
    /\ service = "realtime" /\ gpc = "done" /\ goutcome = "resolved"
    /\ Len(ghist.tried) = 3
    /\ ghist.tried[1].threw
    /\ ~ghist.tried[2].threw /\ ghist.tried[2].passing = 0

\* C30: an entry enters this.cache only with a non-empty list of fetched
\* records: an adapter call that got no such list stores nothing.
C30_CacheOnlyFromLiveFetch ==
    [][\A k \in DOMAIN gcache :
          (gcache'[k].age = "fresh" /\ gcache'[k] # gcache[k]) =>
              /\ gcache'[k].data # <<>>
              /\ \A i \in DOMAIN gcache'[k].data : gcache'[k].data[i].origin = "live"]_vars

-----------------------------------------------------------------------------
(* makeRequest of RealYahooFinanceService as a state machine *)

\* the endpoint of Financial Modeling Prep and one of Yahoo Finance
RequestUrls ==
    {"https://financialmodelingprep.com/api/v3/gainers",
     "https://query1.finance.yahoo.com/v1/finance/screener"}

\* makeRequest(url, options): the loop is entered and fetch is called
RequestStart ==
    /\ service = "request"
    /\ req.pc = "idle"
    /\ \E url \in RequestUrls, mode \in RequestModes :
          req' = [NoRequest EXCEPT !.pc = "fetching", !.url = url, !.mode = mode,
                                   !.attempt = 1]
    /\ UNCHANGED <<newsVars, gainersVars, cacheVars, sent, limiter>>

\* fetch settles and the round of the loop runs up to its return, its throw
\* or its await this.delay(...)
FetchSettles ==
    /\ req.pc = "fetching"
    /\ \E settled \in FetchOutcomes :
          LET step == makeRequestStep(req.attempt, settled, req.mode) IN
          req' = [req EXCEPT
                    !.outcomes = Append(@, settled),
                    !.pc = CASE step.next = "return" -> "returned"
                             [] step.next = "throw" -> "thrown"
                             [] OTHER -> "waiting",
                    !.waits = IF step.next = "retry" THEN Append(@, step.wait) ELSE @,
                    !.message = step.message]
    /\ UNCHANGED <<newsVars, gainersVars, cacheVars, sent, limiter>>

\* the delay is over: attempt++ and the loop test; a loop that ends returns
\* undefined
DelayElapses ==
    /\ req.pc = "waiting"
    /\ req' = [req EXCEPT !.attempt = @ + 1,
                           !.pc = IF req.attempt + 1 <= maxRetries THEN "fetching"
                                  ELSE "undefined"]
    /\ UNCHANGED <<newsVars, gainersVars, cacheVars, sent, limiter>>

\* the caller has the response or the error
RequestReturn ==
    /\ req.pc \in {"returned", "thrown", "undefined"}
    /\ req' = NoRequest
    /\ UNCHANGED <<newsVars, gainersVars, cacheVars, sent, limiter>>

InitRequest ==
    /\ service = "request"
    /\ NewsInit
    /\ \A s \in Sources : apis[s] = NoKey
    /\ GainersInit
    /\ CacheInit
    /\ SentimentInit
    /\ UtilInit

NextRequest == RequestStart \/ FetchSettles \/ DelayElapses \/ RequestReturn

SpecRequest == InitRequest /\ [][NextRequest]_vars

\* the fetch that settled last
LastOutcome == req.outcomes[Len(req.outcomes)]

\* the round that just ran identified a CORS/NetworkError
IdentifiedAsCors ==
    \/ LastOutcome = "cors"
    \/ req.mode = "no-cors" /\ LastOutcome \in {"ok", "http"}

\* C29: makeRequest issues at most maxRetries fetches and ends; it returns
\* only after a fetch that gave an ok response; before attempt k + 1 it has
\* waited retryDelay * k; an error identified as CORS/NetworkError ends the
\* call at once with a throw; after the last failed attempt it throws, and it
\* throws for no other reason; it never returns undefined.
C29_BoundedRetries ==
    /\ req.attempt <= maxRetries
    /\ Len(req.outcomes) <= maxRetries
    /\ req.pc # "undefined"
    /\ req.pc = "returned" => (LastOutcome = "ok" /\ req.mode # "no-cors")
    /\ \A k \in DOMAIN req.waits : req.waits[k] = retryDelay * k
    /\ req.pc = "fetching" => Len(req.waits) = req.attempt - 1
    /\ \A k \in DOMAIN req.outcomes :
          req.outcomes[k] = "cors" => (k = Len(req.outcomes) /\ req.pc = "thrown")
    /\ req.pc = "waiting" => (req.attempt < maxRetries /\ ~IdentifiedAsCors)
    /\ req.pc = "thrown" =>
          \/ IdentifiedAsCors
          \/ Len(req.outcomes) = maxRetries /\ LastOutcome \in {"http", "error"}

\* two failed attempts, two delays, then the third fetch fails and the call
\* throws
C29_Witness ==
    /\ req.pc = "thrown"
    /\ req.outcomes = <<"http", "error", "http">>
    /\ req.waits = <<retryDelay, 2 * retryDelay>>

-----------------------------------------------------------------------------
(* rateLimiter of utils/helpers.js as a state machine *)

\* requests.filter(timestamp => timestamp > windowStart)
ValidRequests(requests, now, windowMs) ==
    SelectSeq(requests, LAMBDA timestamp : timestamp > now - windowMs)

\* canMakeRequest with the test of the limit off by one
canMakeRequestOverLimit(limits, apiName, maxRequests, windowMs, now) ==
    LET validRequests == ValidRequests(limits[apiName].requests, now, windowMs) IN
    IF Len(validRequests) > maxRequests
    THEN [returned |-> FALSE,
          limits |-> [limits EXCEPT ![apiName].has = TRUE]]
    ELSE [returned |-> TRUE,
          limits |-> [limits EXCEPT ![apiName] =
                         [has |-> TRUE, requests |-> Append(validRequests, now)]]]

\* rateLimiter.canMakeRequest(apiName, maxRequests, windowMs) at Date.now() =
\* now: what it returns and the Map it leaves
canMakeRequest(limits, apiName, maxRequests, windowMs, now) ==
    LET validRequests == ValidRequests(limits[apiName].requests, now, windowMs) IN
    IF Len(validRequests) >= maxRequests
    THEN [returned |-> FALSE,
          limits |-> [limits EXCEPT ![apiName].has = TRUE]]
    ELSE [returned |-> TRUE,
          limits |-> [limits EXCEPT ![apiName] =
                         [has |-> TRUE, requests |-> Append(validRequests, now)]]]

\* a caller asks whether it may call the API
CanMakeRequest ==
    /\ service = "limiter"
    /\ \E apiName \in LimitedApis :
          LET r == canMakeRequest(limiter.limits, apiName, limiter.maxRequests,
                                  limiter.windowMs, limiter.now)
          IN limiter' = [limiter EXCEPT
                !.limits = r.limits,
                !.granted[apiName] = IF r.returned THEN Append(@, limiter.now) ELSE @,
                !.last = [apiName |-> apiName, returned |-> r.returned,
                          before |-> limiter.limits]]
    /\ UNCHANGED <<newsVars, gainersVars, cacheVars, sent, req>>

\* Date.now() moves on by a millisecond
TimePasses ==
    /\ service = "limiter"
    /\ limiter.now < MaxNow
    /\ limiter' = [limiter EXCEPT !.now = @ + 1]
    /\ UNCHANGED <<newsVars, gainersVars, cacheVars, sent, req>>

InitLimiter ==
    /\ service = "limiter"
    /\ NewsInit
    /\ \A s \in Sources : apis[s] = NoKey
    /\ GainersInit
    /\ CacheInit
    /\ SentimentInit
    /\ req = NoRequest
    /\ \E maxRequests \in 1..MaxRequestsBound, windowMs \in WindowChoices :
          limiter = NewLimiter(maxRequests, windowMs)

NextLimiter == CanMakeRequest \/ TimePasses

SpecLimiter == InitLimiter /\ [][NextLimiter]_vars

\* the calls for apiName that returned true at a time in (start, start + windowMs]
GrantedWithin(apiName, start) ==
    Cardinality({k \in DOMAIN limiter.granted[apiName] :
                    /\ limiter.granted[apiName][k] > start
                    /\ limiter.granted[apiName][k] <= start + limiter.windowMs})

\* C28: with the same maxRequests and windowMs in every call, no window of
\* windowMs milliseconds holds more than maxRequests calls of one apiName
\* that returned true; a call that returned false left the stored timestamps
\* as they were; a call for one apiName left the timestamps of every other
\* apiName as they were.
C28_SlidingWindowLimit ==
    service = "limiter" =>
        /\ \A apiName \in LimitedApis, start \in (0 - limiter.windowMs)..MaxNow :
              GrantedWithin(apiName, start) <= limiter.maxRequests
        /\ limiter.last.apiName # "" =>
              /\ ~limiter.last.returned => limiter.limits = limiter.last.before
              /\ \A a \in LimitedApis \ {limiter.last.apiName} :
                    limiter.limits[a] = limiter.last.before[a]

\* a call was refused after an earlier request of the same apiName had left
\* the window and another had been let through, while the other apiName has
\* requests of its own
C28_Witness ==
    /\ service = "limiter"
    /\ limiter.last.apiName = "finnhub" /\ ~limiter.last.returned
    /\ Len(limiter.granted["finnhub"]) > limiter.maxRequests
    /\ Len(limiter.limits["finnhub"].requests) = limiter.maxRequests
    /\ limiter.limits["marketaux"].requests # <<>>

-----------------------------------------------------------------------------
(* analyzeBulkSentiment over a list of stocks, as a state machine *)

\* the symbols of the stocks of a list, by position
BulkSymbols == <<"NVDA", "TSLA", "AMD">>

\* the lists handed to analyzeBulkSentiment: stocks of different symbols
BulkLists ==
    {[k \in DOMAIN q |-> [q[k] EXCEPT !.symbol = BulkSymbols[k]]] :
        q \in SeqsUpTo(BulkStocks, MaxStocks)}

\* the clock during one call
BulkClocks == {[day |-> 1, hour |-> 12, minute |-> 30],
               [day |-> 6, hour |-> 18, minute |-> 30]}

\* new Map()
EmptyMap == [s \in {} |-> NoSentiment]

\* Map.prototype.set
sentimentResultsSet(map, key, value) ==
    [s \in DOMAIN map \cup {key} |-> IF s = key THEN value ELSE map[s]]

\* the body of the loop with no try/catch around it: the TypeError of
\* stock.change.replace leaves the loop and rejects the promise
bulkLoopBodyUncaught(svc, sentimentResults, stock, env) ==
    IF stock.change = UndefinedChange
    THEN [sentimentResults |-> sentimentResults, threw |-> TRUE]
    ELSE [sentimentResults |->
              sentimentResultsSet(sentimentResults, stock.symbol, analyzeBulkSentiment(svc, stock, env)),
          threw |-> FALSE]

\* the body of `for (const stock of stocks)`: try { ... set(stock.symbol,
\* entry) } catch { set(stock.symbol, default entry) }
bulkLoopBody(svc, sentimentResults, stock, env) ==
    [sentimentResults |->
         sentimentResultsSet(sentimentResults, stock.symbol, analyzeBulkSentiment(svc, stock, env)),
     threw |-> FALSE]

NoBulk == [pc |-> "idle", i |-> 0, sentimentResults |-> EmptyMap, envs |-> <<>>]

\* analyzeBulkSentiment(stocks) is called
BulkCall ==
    /\ service = "bulk"
    /\ sent.ret.pc = "idle"
    /\ \E svc \in BulkServices, stocks \in BulkLists, clk \in BulkClocks :
          sent' = [fn |-> "analyzeBulkSentiment", svc |-> svc, arg |-> stocks,
                   env |-> [day |-> clk.day, hour |-> clk.hour, minute |-> clk.minute,
                            random |-> 0],
                   ret |-> [NoBulk EXCEPT !.pc = IF stocks = <<>> THEN "resolved"
                                                 ELSE "looping",
                                          !.i = 1]]
    /\ UNCHANGED <<newsVars, gainersVars, cacheVars, utilVars>>

\* one round of the loop, Math.random() giving what it gives
BulkRound ==
    /\ service = "bulk"
    /\ sent.ret.pc = "looping"
    /\ \E random \in {0, 999999} :
          LET env == [sent.env EXCEPT !.random = random]
              round == bulkLoopBody(sent.svc, sent.ret.sentimentResults,
                                    sent.arg[sent.ret.i], env)
          IN sent' = [sent EXCEPT
                !.ret.sentimentResults = round.sentimentResults,
                !.ret.envs = Append(@, env),
                !.ret.i = @ + 1,
                !.ret.pc = IF round.threw THEN "rejected"
                           ELSE IF sent.ret.i = Len(sent.arg) THEN "resolved"
                           ELSE "looping"]
    /\ UNCHANGED <<newsVars, gainersVars, cacheVars, utilVars>>

\* the caller has the map
BulkReturn ==
    /\ service = "bulk"
    /\ sent.ret.pc \in {"resolved", "rejected"}
    /\ sent' = [fn |-> "none", svc |-> "", arg |-> <<>>, env |-> NoEnvironment,
                ret |-> NoBulk]
    /\ UNCHANGED <<newsVars, gainersVars, cacheVars, utilVars>>

InitBulk ==
    /\ service = "bulk"
    /\ NewsInit
    /\ \A s \in Sources : apis[s] = NoKey
    /\ GainersInit
    /\ CacheInit
    /\ UtilInit
    /\ sent = [fn |-> "none", svc |-> "", arg |-> <<>>, env |-> NoEnvironment,
               ret |-> NoBulk]

NextBulk == BulkCall \/ BulkRound \/ BulkReturn

SpecBulk == InitBulk /\ [][NextBulk]_vars

\* C27: analyzeBulkSentiment never rejects; every stock the loop has passed
\* has an entry under its symbol; the entry of a stock without a change
\* field is the default one (score 0, Neutral); the entry of every other
\* stock is what the scoring gives for that stock alone, whatever the stocks
\* around it are.
C27_BulkNeverRejects ==
    service = "bulk" =>
        /\ sent.ret.pc # "rejected"
        /\ sent.ret.pc = "resolved" => Len(sent.ret.envs) = Len(sent.arg)
        /\ \A k \in DOMAIN sent.ret.envs :
              /\ sent.arg[k].symbol \in DOMAIN sent.ret.sentimentResults
              /\ LET entry == sent.ret.sentimentResults[sent.arg[k].symbol] IN
                 IF sent.arg[k].change = UndefinedChange
                 THEN entry.score = 0 /\ entry.label = "Neutral"
                          /\ entry.confidence = 50 * One
                 ELSE entry = analyzeBulkSentiment(sent.svc, sent.arg[k], sent.ret.envs[k])

\* the first stock has no change field, the second has one and is scored
C27_Witness ==
    /\ service = "bulk" /\ sent.ret.pc = "resolved"
    /\ Len(sent.arg) = 2
    /\ sent.arg[1].change = UndefinedChange
    /\ sent.arg[2].change # UndefinedChange
    /\ sent.ret.sentimentResults["NVDA"].score = 0
    /\ sent.ret.sentimentResults["TSLA"].score # 0

====
